---- MODULE Spec2Model ----
(***************************************************************************)
(* gcg: grep-like search and reporting over a GnuCash book.                *)
(*                                                                         *)
(* The model follows src/gcg/gcg/cli.py: one invocation of the commands    *)
(* accounts, grep and ledger over a read-only book, from the parsed        *)
(* arguments to the rows handed to the output formatter and the exit code. *)
(*                                                                         *)
(* Text is a sequence of code points (65 = "A", 97 = "a", 32 = " ",        *)
(* 58 = ":", 46 = ".", 40 = "("), so that case folding, substring search   *)
(* and the ordering of sort keys are computed and not assumed.  Python's   *)
(* None is the empty tuple and a present value x is the tuple <<x>>.       *)
(***************************************************************************)
EXTENDS Integers, Sequences, FiniteSets, TLC

(***************************************************************************)
(* Bounds of the model.                                                    *)
(***************************************************************************)
\* Posting dates and date arguments are the day numbers 1..MaxDate.
MaxDate == 3
\* --offset and --limit range over 0..MaxPage (and unset).
MaxPage == 2

(***************************************************************************)
(* Optional values and Python truthiness.                                  *)
(***************************************************************************)
None == << >>
Some(x) == << x >>
IsSet(o) == o # None
Val(o) == o[1]

\* `if n:` on an Optional[int]: None and 0 are both falsy.
TruthyInt(o) == IsSet(o) /\ Val(o) # 0
\* `if s:` on an Optional[str]: None and "" are both falsy.
TruthyStr(o) == IsSet(o) /\ Val(o) # << >>

Abs(n) == IF n < 0 THEN -n ELSE n
Min(a, b) == IF a < b THEN a ELSE b

(***************************************************************************)
(* Text: literals used in the books and the queries.                       *)
(***************************************************************************)
Str_empty == << >>
Str_A     == << 65 >>
Str_AB    == << 65, 58, 66 >>          \* "A:B"
Str_E     == << 69 >>
Str_T     == << 84 >>
Str_A_end == << 65, 36 >>              \* "A$": as a regex, a name ending in A
Str_Ab    == << 65, 98 >>              \* "Ab"
Str_a     == << 97 >>
Str_b     == << 98 >>
Str_B     == << 66 >>
Str_ab    == << 97, 98 >>
Str_dot   == << 46 >>                  \* "."
Str_paren == << 40 >>                  \* "(": an unterminated group as a regex
Str_b_a   == << 98, 32, 97 >>          \* "b a": spans two fields of the haystack
Space     == << 32 >>
\* A description the store holds no text for (None): no text is this value.
NoDescription == << -1 >>
\* The ledger of the "Office Supplies" scenario.
Str_OfficeSupplies == << 79, 102, 102, 105, 99, 101, 32,
                         83, 117, 112, 112, 108, 105, 101, 115 >>
Str_supplies == << 115, 117, 112, 112, 108, 105, 101, 115 >>
Str_SUPPLIES == << 83, 85, 80, 80, 76, 73, 69, 83 >>
Str_Office   == << 79, 102, 102, 105, 99, 101 >>
Str_AssetsBankChecking ==
    << 65, 115, 115, 101, 116, 115, 58, 66, 97, 110, 107, 58,
       67, 104, 101, 99, 107, 105, 110, 103 >>
Str_ExpensesOffice ==
    << 69, 120, 112, 101, 110, 115, 101, 115, 58,
       79, 102, 102, 105, 99, 101 >>

\* str.lower() / re.IGNORECASE on one ASCII code point.
Lower(c) == IF c \in 65..90 THEN c + 32 ELSE c

\* Python's ordering of str: lexicographic by code point.
RECURSIVE StrLess(_, _)
StrLess(s, t) ==
    IF t = << >> THEN FALSE
    ELSE IF s = << >> THEN TRUE
    ELSE IF Head(s) # Head(t) THEN Head(s) < Head(t)
    ELSE StrLess(Tail(s), Tail(t))

(***************************************************************************)
(* Patterns: re.compile and Pattern.search, on the alphabet of the model.  *)
(* In a regex "." matches any character, a final "$" matches at the end of *)
(* the text and "(" opens a group that nothing closes (re.error);          *)
(* re.escape makes all three literal.                                      *)
(***************************************************************************)
\* The regex ends with the anchor "$".
EndAnchored(text, is_regex) ==
    is_regex /\ text # << >> /\ text[Len(text)] = 36

\* The part of the pattern that consumes characters.
Consuming(text, is_regex) ==
    IF EndAnchored(text, is_regex) THEN SubSeq(text, 1, Len(text) - 1)
    ELSE text

ReIsValid(text) == \A i \in 1..Len(text) : text[i] # 40

\* Variant: re.IGNORECASE is set whatever --case-sensitive says.
CompileAlwaysIgnoreCase(text, is_regex, case_sensitive) ==
    [ok         |-> (~is_regex) \/ ReIsValid(text),
     atoms      |-> [i \in 1..Len(Consuming(text, is_regex)) |->
                        [any |-> is_regex /\ text[i] = 46, ch |-> text[i]]],
     at_end     |-> EndAnchored(text, is_regex),
     ignorecase |-> TRUE]

Compile(text, is_regex, case_sensitive) ==
    [ok         |-> (~is_regex) \/ ReIsValid(text),
     atoms      |-> [i \in 1..Len(Consuming(text, is_regex)) |->
                        [any |-> is_regex /\ text[i] = 46, ch |-> text[i]]],
     at_end     |-> EndAnchored(text, is_regex),
     ignorecase |-> ~case_sensitive]

AtomMatches(atom, c, ignorecase) ==
    \/ atom.any
    \/ IF ignorecase THEN Lower(atom.ch) = Lower(c) ELSE atom.ch = c

\* pattern.search(hay): a match anywhere in hay; the empty pattern matches.
Search(pattern, hay) ==
    \E i \in 1..(Len(hay) - Len(pattern.atoms) + 1) :
        /\ \A j \in 1..Len(pattern.atoms) :
              AtomMatches(pattern.atoms[j], hay[i + j - 1], pattern.ignorecase)
        /\ pattern.at_end => i + Len(pattern.atoms) - 1 = Len(hay)

(***************************************************************************)
(* The book store: accounts, transactions, splits, prices and the          *)
(* capabilities reported when the book is opened.                          *)
(***************************************************************************)
Dates == 1..MaxDate

Account(guid, fullname, type, commodity, parent) ==
    [guid |-> guid, fullname |-> fullname, type |-> type,
     commodity |-> commodity, parent |-> parent]

Split(guid, tx, account, value, memo) ==
    [guid |-> guid, tx |-> tx, account |-> account, value |-> value,
     memo |-> memo]

Transaction(guid, post_date, description, notes, splits) ==
    [guid |-> guid, post_date |-> post_date, description |-> description,
     notes |-> notes, splits |-> splits]

\* A book with two transactions over the accounts A, A:B, E and a trading
\* account T.  d1 is the posting date of the first transaction, acc2 the
\* account of its second split, cur2 the commodity of A:B, notesCap the
\* notes capability of the schema and priced whether a USD->EUR price is
\* recorded on day 1.
MkBook(d1, acc2, cur2, notesCap, priced) ==
    [exists |-> TRUE,
     accounts |-> <<
        Account("a1", Str_A,  "ASSET",   Some("EUR"), None),
        Account("a2", Str_AB, "BANK",    Some(cur2),  Some("a1")),
        Account("a3", Str_E,  "EXPENSE", Some("EUR"), None),
        Account("a4", Str_T,  "TRADING", None,        None) >>,
     splits |-> <<
        Split(1, "t1", "a1", -7, None),
        Split(2, "t1", acc2,  4, Some(Str_a)),
        Split(3, "t1", "a3",  3, Some(Str_ab)),
        Split(4, "t2", "a2", -3, Some(Str_B)),
        Split(5, "t2", "a3",  3, Some(Str_empty)),
        Split(6, "t2", "a4",  0, None) >>,
     transactions |-> <<
        Transaction("t1", d1, Str_Ab,
                    IF notesCap = "none" THEN None ELSE Some(Str_b),
                    << 1, 2, 3 >>),
        Transaction("t2", 2, Str_b, None, << 4, 5, 6 >>) >>,
     prices |-> IF priced
                THEN { [from |-> "USD", to |-> "EUR", date |-> 1, rate |-> 2] }
                ELSE { },
     info |-> [has_notes_column |-> notesCap = "column",
               has_slots_notes  |-> notesCap = "slots",
               default_currency |-> "EUR"]]

\* The ledger of the scenarios: Assets:Bank:Checking and Expenses:Office,
\* both in EUR, and one transaction "Office Supplies" of 50.
ScenarioBook ==
    [exists |-> TRUE,
     accounts |-> <<
        Account("c1", Str_AssetsBankChecking, "BANK",    Some("EUR"), None),
        Account("o1", Str_ExpensesOffice,     "EXPENSE", Some("EUR"), None) >>,
     splits |-> <<
        Split(1, "s1", "c1", -50, None),
        Split(2, "s1", "o1",  50, None) >>,
     transactions |-> <<
        Transaction("s1", 2, Str_OfficeSupplies, None, << 1, 2 >>) >>,
     prices |-> { },
     info |-> [has_notes_column |-> FALSE,
               has_slots_notes  |-> FALSE,
               default_currency |-> "EUR"]]

\* A book whose first transaction has no description.
NoDescBook ==
    [MkBook(1, "a1", "EUR", "column", FALSE) EXCEPT
        !.transactions[1].description = NoDescription]

\* A book that holds notes for its first transaction while the store
\* reports no notes capability.
UnreportedNotesBook ==
    [MkBook(1, "a1", "EUR", "column", FALSE) EXCEPT
        !.info.has_notes_column = FALSE]

Books ==
    { MkBook(d1, "a1", cur[1], notesCap, cur[2]) :
        d1 \in Dates,
        cur \in { <<"EUR", FALSE>>, <<"USD", FALSE>>, <<"USD", TRUE>> },
        notesCap \in {"none", "column", "slots"} }
    \cup
    \* two splits in the USD account, posted on different days
    { MkBook(d1, "a2", "USD", "none", TRUE) : d1 \in Dates }
    \cup
    { ScenarioBook, NoDescBook, UnreportedNotesBook }

\* A configured book path at which there is no file.
MissingBook ==
    [MkBook(1, "a1", "EUR", "none", FALSE) EXCEPT !.exists = FALSE]

\* open_gnucash_book(path) raises BookOpenError unless the book can be read.
BookOpens(bk) == bk.exists

AccountByGuid(bk, guid) ==
    LET i == CHOOSE i \in 1..Len(bk.accounts) : bk.accounts[i].guid = guid
    IN  bk.accounts[i]

TxByGuid(bk, guid) ==
    LET i == CHOOSE i \in 1..Len(bk.transactions) :
                 bk.transactions[i].guid = guid
    IN  bk.transactions[i]

\* acc.splits: the splits posted to the account, in store order.
AccountSplits(bk, acc) ==
    SelectSeq(bk.splits, LAMBDA s : s.account = acc.guid)

\* tx.splits: the splits of a transaction, in store order.
TxSplits(bk, tx) == [i \in 1..Len(tx.splits) |-> bk.splits[tx.splits[i]]]

\* get_transaction_notes(path, tx_guid, has_notes_column)
GetTransactionNotes(bk, tx_guid) == TxByGuid(bk, tx_guid).notes

(***************************************************************************)
(* Account resolution (gcg.book.get_account_by_pattern).                   *)
(***************************************************************************)
RECURSIVE HasAncestorIn(_, _, _)
HasAncestorIn(bk, acc, guids) ==
    /\ IsSet(acc.parent)
    /\ \/ Val(acc.parent) \in guids
       \/ HasAncestorIn(bk, AccountByGuid(bk, Val(acc.parent)), guids)

GetAccountByPattern(bk, pattern, is_regex, case_sensitive, include_subtree) ==
    LET pat     == Compile(pattern, is_regex, case_sensitive)
        matched == { bk.accounts[i].guid : i \in
                       { j \in 1..Len(bk.accounts) :
                           Search(pat, bk.accounts[j].fullname) } }
    IN  SelectSeq(bk.accounts,
                  LAMBDA a : \/ a.guid \in matched
                             \/ include_subtree /\ HasAncestorIn(bk, a, matched))

(***************************************************************************)
(* Configuration and currency conversion (gcg.config, gcg.currency).       *)
(***************************************************************************)
Config ==
    [base_currency |-> "EUR", fx_lookback_days |-> 1,
     output_format |-> "table", currency_mode |-> "auto"]

\* get_account_currencies(accounts): the commodities of the accounts.
GetAccountCurrencies(accounts) ==
    { Val(accounts[i].commodity) :
        i \in { j \in 1..Len(accounts) : IsSet(accounts[j].commodity) } }

\* determine_display_currency(mode, splits, account_currencies, base)
DetermineDisplayCurrency(mode, splits, account_currencies, base_currency) ==
    IF mode = "base" THEN Some(base_currency)
    ELSE IF mode = "auto" /\ Cardinality(account_currencies) > 1
         THEN Some(base_currency)
    ELSE None

\* CurrencyConverter(path, base_currency, lookback_days)
CurrencyConverter(bk, base_currency, lookback_days) ==
    [prices |-> bk.prices, base_currency |-> base_currency,
     lookback_days |-> lookback_days]

\* converter.convert(amount, from_currency, to_currency, as_of): the most
\* recent rate dated as_of or earlier, at most lookback_days back.
Convert(converter, amount, from_currency, to_currency, as_of) ==
    LET usable == { p \in converter.prices :
                      /\ p.from = from_currency
                      /\ p.to = to_currency
                      /\ p.date <= as_of
                      /\ p.date >= as_of - converter.lookback_days }
    IN  IF from_currency = to_currency \/ usable = { }
        THEN [amount |-> amount, currency |-> from_currency,
              fx_rate |-> None, converted |-> FALSE]
        ELSE LET p == CHOOSE q \in usable :
                          \A r \in usable : r.date <= q.date
             IN  [amount |-> amount * p.rate, currency |-> to_currency,
                  fx_rate |-> Some(p.rate), converted |-> TRUE]

(***************************************************************************)
(* Arguments: the argparse namespace of one invocation.                    *)
(***************************************************************************)
DefaultArgs ==
    [command        |-> "grep",
     \* global options
     sort           |-> "date",
     reverse        |-> FALSE,
     limit          |-> None,
     offset         |-> None,
     \* accounts
     pattern        |-> Str_empty,
     tree           |-> FALSE,
     show_guids     |-> FALSE,
     \* tx, split
     guid           |-> "",
     \* grep: text selector
     text           |-> Str_empty,
     regex          |-> FALSE,
     case_sensitive |-> FALSE,
     search_fields  |-> {"desc", "memo", "notes"},
     \* account selector: grep --account, ledger account_pattern
     account        |-> None,
     account_pattern |-> Str_empty,
     account_regex  |-> FALSE,
     no_subtree     |-> FALSE,
     \* date and amount windows
     after          |-> None,
     before         |-> None,
     date           |-> None,
     amount         |-> None,
     signed         |-> FALSE,
     \* grep: grouping
     full_tx        |-> FALSE,
     dedupe         |-> "split",
     \* currency options
     currency       |-> "auto",
     base_currency  |-> None,
     also_original  |-> FALSE,
     fx_lookback    |-> None]

\* `args.base_currency or config.base_currency`
BaseCurrencyOf(args) ==
    IF IsSet(args.base_currency) /\ Val(args.base_currency) # ""
    THEN Val(args.base_currency) ELSE Config.base_currency

\* `args.fx_lookback or config.fx_lookback_days`
LookbackOf(args) ==
    IF TruthyInt(args.fx_lookback) THEN Val(args.fx_lookback)
    ELSE Config.fx_lookback_days

\* parse_date_range: "A..B", "A..", "..B" as (start_date, end_date).
ParseDateRange(start_date, end_date) ==
    [start_date |-> start_date, end_date |-> end_date]

\* parse_amount_range: "MIN..MAX", "MIN..", "..MAX".
ParseAmountRange(min_amount, max_amount) ==
    [min_amount |-> min_amount, max_amount |-> max_amount]

\* Variant: the end of --date A..B taken as the exclusive bound itself.
ResolveDateFiltersNoShift(args) ==
    LET date_range  == args.date
        range_start == IF IsSet(date_range)
                       THEN Val(date_range).start_date ELSE None
        range_end   == IF IsSet(date_range)
                       THEN Val(date_range).end_date ELSE None
    IN  [after_date  |-> IF IsSet(range_start) THEN range_start
                         ELSE args.after,
         before_date |-> IF IsSet(range_end) THEN range_end
                         ELSE args.before]

\* resolve_date_filters(args): --after is inclusive, --before is exclusive,
\* --date A..B overrides them with A and B + 1 day.
ResolveDateFilters(args) ==
    LET date_range  == args.date
        range_start == IF IsSet(date_range)
                       THEN Val(date_range).start_date ELSE None
        range_end   == IF IsSet(date_range)
                       THEN Val(date_range).end_date ELSE None
    IN  [after_date  |-> IF IsSet(range_start) THEN range_start
                         ELSE args.after,
         before_date |-> IF IsSet(range_end) THEN Some(Val(range_end) + 1)
                         ELSE args.before]

(***************************************************************************)
(* Filters of the scan over candidate splits (cmd_grep, cmd_ledger).       *)
(***************************************************************************)
\* Variant: a split posted exactly on after_date is skipped too.
DateFilterAfterExclusive(tx_date, after_date, before_date) ==
    /\ ~(IsSet(after_date) /\ tx_date <= Val(after_date))
    /\ ~(IsSet(before_date) /\ tx_date >= Val(before_date))

\* Date filter: the split is skipped when posted before after_date or on or
\* after before_date.
DateFilter(tx_date, after_date, before_date) ==
    /\ ~(IsSet(after_date) /\ tx_date < Val(after_date))
    /\ ~(IsSet(before_date) /\ tx_date >= Val(before_date))

\* args.amount if args.amount else (None, None)
AmountRange(args) ==
    IF IsSet(args.amount) THEN Val(args.amount)
    ELSE ParseAmountRange(None, None)

\* Variant: the signed value is compared whatever --signed says.
AmountFilterAlwaysSigned(value, signed, amount_range) ==
    LET min_amt == amount_range.min_amount
        max_amt == amount_range.max_amount
    IN  /\ ~(IsSet(min_amt) /\ value < Val(min_amt))
        /\ ~(IsSet(max_amt) /\ value > Val(max_amt))

\* Amount filter, on the absolute value unless --signed.
AmountFilter(value, signed, amount_range) ==
    LET split_value == IF ~signed THEN Abs(value) ELSE value
        min_amt     == amount_range.min_amount
        max_amt     == amount_range.max_amount
    IN  /\ ~(IsSet(min_amt) /\ split_value < Val(min_amt))
        /\ ~(IsSet(max_amt) /\ split_value > Val(max_amt))

\* The haystack of the text search: the requested fields, each followed by
\* a space; a missing memo or missing notes add nothing of their own.
Searchable(bk, split, tx, search_fields, notes_supported) ==
    LET desc  == IF "desc" \in search_fields
                 THEN tx.description \o Space ELSE << >>
        memo  == IF "memo" \in search_fields
                 THEN (IF TruthyStr(split.memo) THEN Val(split.memo)
                       ELSE << >>) \o Space
                 ELSE << >>
        notes == IF "notes" \in search_fields /\ notes_supported
                 THEN LET n == GetTransactionNotes(bk, tx.guid)
                      IN  IF TruthyStr(n) THEN Val(n) \o Space ELSE << >>
                 ELSE << >>
    IN  desc \o memo \o notes

(***************************************************************************)
(* The scan of cmd_grep and cmd_ledger.                                    *)
(***************************************************************************)
\* for acc in accounts: for split in acc.splits: the (split, tx, acc)
\* tuples in iteration order.
RECURSIVE Candidates(_, _)
Candidates(bk, accounts) ==
    IF accounts = << >> THEN << >>
    ELSE LET acc    == Head(accounts)
             splits == AccountSplits(bk, acc)
         IN  [i \in 1..Len(splits) |->
                 << splits[i], TxByGuid(bk, splits[i].tx), acc >>]
             \o Candidates(bk, Tail(accounts))

\* Account filter of cmd_grep: only with a non-empty account_set.
AccountFilter(split, account_set) ==
    ~(IsSet(account_set) /\ Val(account_set) # { }
        /\ split.account \notin Val(account_set))

\* Variant: --full-tx leaves the requested dedupe mode alone.
DedupeByTxOnlyRequested(args) == args.dedupe = "tx"

\* Deduplication applies with --dedupe tx and with --full-tx.
DedupeByTx(args) == args.dedupe = "tx" \/ args.full_tx

\* Notes take part only when the schema stores them.
NotesSupported(info) == info.has_notes_column \/ info.has_slots_notes

\* Variant: with --currency base the amount window is tested on the amount
\* converted to the base currency.
GrepPassesOnDisplayAmount(bk, args, pattern, account_set, cand) ==
    LET split           == cand[1]
        tx              == cand[2]
        acc             == cand[3]
        dates           == ResolveDateFilters(args)
        notes_supported == NotesSupported(bk.info)
        search_fields   == IF notes_supported THEN args.search_fields
                           ELSE args.search_fields \ {"notes"}
        native          == IF IsSet(acc.commodity) THEN Val(acc.commodity)
                           ELSE "???"
        shown           == IF args.currency = "base"
                           THEN Convert(CurrencyConverter(bk,
                                            BaseCurrencyOf(args),
                                            LookbackOf(args)),
                                        split.value, native,
                                        Config.base_currency,
                                        tx.post_date).amount
                           ELSE split.value
    IN  /\ AccountFilter(split, account_set)
        /\ DateFilter(tx.post_date, dates.after_date, dates.before_date)
        /\ AmountFilter(shown, args.signed, AmountRange(args))
        /\ Search(pattern,
                  Searchable(bk, split, tx, search_fields, notes_supported))

\* Variant: requested notes are looked up whatever the store reports.
GrepPassesNotesAlways(bk, args, pattern, account_set, cand) ==
    LET split == cand[1]
        tx    == cand[2]
        dates == ResolveDateFilters(args)
    IN  /\ AccountFilter(split, account_set)
        /\ DateFilter(tx.post_date, dates.after_date, dates.before_date)
        /\ AmountFilter(split.value, args.signed, AmountRange(args))
        /\ Search(pattern,
                  Searchable(bk, split, tx, args.search_fields, TRUE))

\* All filters of cmd_grep on one candidate, in the order of the loop body.
GrepPasses(bk, args, pattern, account_set, cand) ==
    LET split           == cand[1]
        tx              == cand[2]
        dates           == ResolveDateFilters(args)
        notes_supported == NotesSupported(bk.info)
        search_fields   == IF notes_supported THEN args.search_fields
                           ELSE args.search_fields \ {"notes"}
    IN  /\ AccountFilter(split, account_set)
        /\ DateFilter(tx.post_date, dates.after_date, dates.before_date)
        /\ AmountFilter(split.value, args.signed, AmountRange(args))
        /\ Search(pattern,
                  Searchable(bk, split, tx, search_fields, notes_supported))

\* `tx.description + " "` on a transaction without description: TypeError.
TextSearchRaises(tx, search_fields) ==
    "desc" \in search_fields /\ tx.description = NoDescription

\* The loop of cmd_grep raises at the first candidate that passes the
\* account, date and amount filters and whose haystack cannot be built.
GrepRaises(bk, args, account_set, cands) ==
    LET dates == ResolveDateFilters(args)
    IN  \E i \in 1..Len(cands) :
            /\ AccountFilter(cands[i][1], account_set)
            /\ DateFilter(cands[i][2].post_date, dates.after_date,
                          dates.before_date)
            /\ AmountFilter(cands[i][1].value, args.signed, AmountRange(args))
            /\ TextSearchRaises(cands[i][2], args.search_fields)

\* Variant: a transaction counts as seen from its first candidate on,
\* whether or not that candidate passes the filters.
RECURSIVE GrepLoopSeenBeforeFilters(_, _, _, _, _, _, _, _)
GrepLoopSeenBeforeFilters(bk, args, pattern, account_set, cands, i, seen_tx_guids, matching_splits) ==
    IF i > Len(cands) THEN matching_splits
    ELSE LET cand == cands[i]
             tx   == cand[2]
             seen == IF DedupeByTx(args) THEN seen_tx_guids \cup {tx.guid}
                     ELSE seen_tx_guids
         IN  IF DedupeByTx(args) /\ tx.guid \in seen_tx_guids
             THEN GrepLoopSeenBeforeFilters(bk, args, pattern, account_set,
                                            cands, i + 1, seen,
                                            matching_splits)
             ELSE IF ~GrepPasses(bk, args, pattern, account_set, cand)
             THEN GrepLoopSeenBeforeFilters(bk, args, pattern, account_set,
                                            cands, i + 1, seen,
                                            matching_splits)
             ELSE GrepLoopSeenBeforeFilters(bk, args, pattern, account_set,
                                            cands, i + 1, seen,
                                            Append(matching_splits, cand))

\* The loop of cmd_grep over the candidates from position i on, with the
\* transactions seen so far and the tuples collected so far.
RECURSIVE GrepLoop(_, _, _, _, _, _, _, _)
GrepLoop(bk, args, pattern, account_set, cands, i, seen_tx_guids, matching_splits) ==
    IF i > Len(cands) THEN matching_splits
    ELSE LET cand == cands[i]
             tx   == cand[2]
         IN  IF ~GrepPasses(bk, args, pattern, account_set, cand)
             THEN GrepLoop(bk, args, pattern, account_set, cands, i + 1,
                           seen_tx_guids, matching_splits)
             ELSE IF DedupeByTx(args) /\ tx.guid \in seen_tx_guids
             THEN GrepLoop(bk, args, pattern, account_set, cands, i + 1,
                           seen_tx_guids, matching_splits)
             ELSE GrepLoop(bk, args, pattern, account_set, cands, i + 1,
                           IF DedupeByTx(args)
                           THEN seen_tx_guids \cup {tx.guid}
                           ELSE seen_tx_guids,
                           Append(matching_splits, cand))

\* The filters of cmd_ledger on one candidate.
LedgerPasses(args, cand) ==
    LET split == cand[1]
        tx    == cand[2]
        dates == ResolveDateFilters(args)
    IN  /\ DateFilter(tx.post_date, dates.after_date, dates.before_date)
        /\ AmountFilter(split.value, args.signed, AmountRange(args))

\* The loop of cmd_ledger: every passing tuple, in iteration order.
LedgerLoop(args, cands) ==
    SelectSeq(cands, LAMBDA cand : LedgerPasses(args, cand))

(***************************************************************************)
(* Rows: _splits_to_rows, _splits_to_transactions, _sort_rows.             *)
(***************************************************************************)
SplitRow(date, description, account, memo, notes, amount, currency, fx_rate, tx_guid, split_guid) ==
    [date |-> date, description |-> description, account |-> account,
     memo |-> memo, notes |-> notes, amount |-> amount,
     currency |-> currency, fx_rate |-> fx_rate, tx_guid |-> tx_guid,
     split_guid |-> split_guid, amount_orig |-> None,
     currency_orig |-> None]

TransactionRow(tx_guid, date, description, notes, splits) ==
    [tx_guid |-> tx_guid, date |-> date, description |-> description,
     notes |-> notes, splits |-> splits]

AccountRow(name, type, currency, guid, depth) ==
    [name |-> name, type |-> type, currency |-> currency, guid |-> guid,
     depth |-> depth]

\* The target currency _splits_to_rows resolves for the tuples it is given.
TargetCurrency(splits_data, args) ==
    DetermineDisplayCurrency(
        args.currency,
        [i \in 1..Len(splits_data) |-> splits_data[i][1]],
        GetAccountCurrencies([i \in 1..Len(splits_data) |-> splits_data[i][3]]),
        Config.base_currency)

\* Variant: a row sent to the converter is labelled with the target
\* currency whether or not a rate was found.
SplitToRowLabelsTarget(bk, args, converter, target_currency, data) ==
    LET split          == data[1]
        tx             == data[2]
        acc            == data[3]
        split_value    == IF ~args.signed THEN Abs(split.value)
                          ELSE split.value
        split_currency == IF IsSet(acc.commodity) THEN Val(acc.commodity)
                          ELSE "???"
        converting     == /\ IsSet(target_currency)
                          /\ Val(target_currency) # ""
                          /\ Val(target_currency) # split_currency
        result         == Convert(converter, split_value, split_currency,
                                  Val(target_currency), tx.post_date)
        display_amount   == IF converting THEN result.amount ELSE split_value
        display_currency == IF converting THEN Val(target_currency)
                            ELSE split_currency
        fx_rate        == IF converting /\ result.converted
                          THEN result.fx_rate ELSE None
        notes          == IF NotesSupported(bk.info)
                          THEN GetTransactionNotes(bk, tx.guid) ELSE None
        row            == SplitRow(tx.post_date, tx.description, acc.fullname,
                                   split.memo, notes, display_amount,
                                   display_currency, fx_rate, tx.guid,
                                   split.guid)
    IN  IF args.also_original /\ TruthyInt(fx_rate)
        THEN [row EXCEPT !.amount_orig = Some(split_value),
                         !.currency_orig = Some(split_currency)]
        ELSE row

\* Variant: the signed value is shown whatever --signed says.
SplitToRowKeepsSign(bk, args, converter, target_currency, data) ==
    LET split          == data[1]
        tx             == data[2]
        acc            == data[3]
        split_value    == split.value
        split_currency == IF IsSet(acc.commodity) THEN Val(acc.commodity)
                          ELSE "???"
        converting     == /\ IsSet(target_currency)
                          /\ Val(target_currency) # ""
                          /\ Val(target_currency) # split_currency
        result         == Convert(converter, split_value, split_currency,
                                  Val(target_currency), tx.post_date)
        display_amount   == IF converting THEN result.amount ELSE split_value
        display_currency == IF converting THEN result.currency
                            ELSE split_currency
        fx_rate        == IF converting /\ result.converted
                          THEN result.fx_rate ELSE None
        notes          == IF NotesSupported(bk.info)
                          THEN GetTransactionNotes(bk, tx.guid) ELSE None
        row            == SplitRow(tx.post_date, tx.description, acc.fullname,
                                   split.memo, notes, display_amount,
                                   display_currency, fx_rate, tx.guid,
                                   split.guid)
    IN  IF args.also_original /\ TruthyInt(fx_rate)
        THEN [row EXCEPT !.amount_orig = Some(split_value),
                         !.currency_orig = Some(split_currency)]
        ELSE row

\* Variant: --also-original fills the original fields of every row.
SplitToRowAlwaysOriginal(bk, args, converter, target_currency, data) ==
    LET split          == data[1]
        tx             == data[2]
        acc            == data[3]
        split_value    == IF ~args.signed THEN Abs(split.value)
                          ELSE split.value
        split_currency == IF IsSet(acc.commodity) THEN Val(acc.commodity)
                          ELSE "???"
        converting     == /\ IsSet(target_currency)
                          /\ Val(target_currency) # ""
                          /\ Val(target_currency) # split_currency
        result         == Convert(converter, split_value, split_currency,
                                  Val(target_currency), tx.post_date)
        display_amount   == IF converting THEN result.amount ELSE split_value
        display_currency == IF converting THEN result.currency
                            ELSE split_currency
        fx_rate        == IF converting /\ result.converted
                          THEN result.fx_rate ELSE None
        notes          == IF NotesSupported(bk.info)
                          THEN GetTransactionNotes(bk, tx.guid) ELSE None
        row            == SplitRow(tx.post_date, tx.description, acc.fullname,
                                   split.memo, notes, display_amount,
                                   display_currency, fx_rate, tx.guid,
                                   split.guid)
    IN  IF args.also_original
        THEN [row EXCEPT !.amount_orig = Some(split_value),
                         !.currency_orig = Some(split_currency)]
        ELSE row

\* The body of the loop of _splits_to_rows for one tuple.
SplitToRow(bk, args, converter, target_currency, data) ==
    LET split          == data[1]
        tx             == data[2]
        acc            == data[3]
        split_value    == IF ~args.signed THEN Abs(split.value)
                          ELSE split.value
        split_currency == IF IsSet(acc.commodity) THEN Val(acc.commodity)
                          ELSE "???"
        converting     == /\ IsSet(target_currency)
                          /\ Val(target_currency) # ""
                          /\ Val(target_currency) # split_currency
        result         == Convert(converter, split_value, split_currency,
                                  Val(target_currency), tx.post_date)
        display_amount   == IF converting THEN result.amount ELSE split_value
        display_currency == IF converting THEN result.currency
                            ELSE split_currency
        fx_rate        == IF converting /\ result.converted
                          THEN result.fx_rate ELSE None
        notes          == IF NotesSupported(bk.info)
                          THEN GetTransactionNotes(bk, tx.guid) ELSE None
        row            == SplitRow(tx.post_date, tx.description, acc.fullname,
                                   split.memo, notes, display_amount,
                                   display_currency, fx_rate, tx.guid,
                                   split.guid)
    IN  IF args.also_original /\ TruthyInt(fx_rate)
        THEN [row EXCEPT !.amount_orig = Some(split_value),
                         !.currency_orig = Some(split_currency)]
        ELSE row

SplitsToRows(bk, splits_data, args) ==
    LET converter == CurrencyConverter(bk, BaseCurrencyOf(args),
                                       LookbackOf(args))
        target_currency == TargetCurrency(splits_data, args)
    IN  [i \in 1..Len(splits_data) |->
            SplitToRow(bk, args, converter, target_currency, splits_data[i])]

\* The SplitRow _splits_to_transactions builds for one split of a
\* transaction: native currency, no conversion.
\* Variant: with --currency base the rows of --full-tx are converted to the
\* base currency like the rows of _splits_to_rows.
FullTxSplitRowConverted(bk, args, tx, notes, s) ==
    LET split_acc == AccountByGuid(bk, s.account)
        native    == IF IsSet(split_acc.commodity)
                     THEN Val(split_acc.commodity) ELSE ""
        value     == IF ~args.signed THEN Abs(s.value) ELSE s.value
        result    == Convert(CurrencyConverter(bk, BaseCurrencyOf(args),
                                               LookbackOf(args)),
                             value, native, Config.base_currency,
                             tx.post_date)
    IN  IF args.currency = "base" /\ result.converted
        THEN SplitRow(tx.post_date, tx.description, split_acc.fullname,
                      s.memo, notes, result.amount, result.currency,
                      result.fx_rate, tx.guid, s.guid)
        ELSE SplitRow(tx.post_date, tx.description, split_acc.fullname,
                      s.memo, notes, value, native, None, tx.guid, s.guid)

FullTxSplitRow(bk, args, tx, notes, s) ==
    LET split_acc == AccountByGuid(bk, s.account)
    IN  SplitRow(tx.post_date, tx.description, split_acc.fullname, s.memo,
                 notes,
                 IF ~args.signed THEN Abs(s.value) ELSE s.value,
                 IF IsSet(split_acc.commodity) THEN Val(split_acc.commodity)
                 ELSE "",
                 None, tx.guid, s.guid)

\* Variant: a tuple adds only its own split to its transaction.
RECURSIVE GroupByTxMatchedOnly(_, _, _, _, _)
GroupByTxMatchedOnly(bk, args, splits_data, i, tx_map) ==
    IF i > Len(splits_data) THEN tx_map
    ELSE LET tx      == splits_data[i][2]
             known   == \E k \in 1..Len(tx_map) : tx_map[k].guid = tx.guid
             notes   == IF NotesSupported(bk.info)
                        THEN GetTransactionNotes(bk, tx.guid) ELSE None
             entered == IF known THEN tx_map
                        ELSE Append(tx_map, [guid |-> tx.guid, tx |-> tx,
                                             notes |-> notes,
                                             splits |-> << >>])
             k       == CHOOSE k \in 1..Len(entered) :
                            entered[k].guid = tx.guid
             added   == << FullTxSplitRow(bk, args, tx, entered[k].notes,
                                          splits_data[i][1]) >>
         IN  GroupByTxMatchedOnly(bk, args, splits_data, i + 1,
                                  [entered EXCEPT ![k].splits = @ \o added])

\* First loop of _splits_to_transactions: tx_map, as the sequence of its
\* entries in insertion order.  Every tuple appends all splits of its
\* transaction to the entry of that transaction.
RECURSIVE GroupByTx(_, _, _, _, _)
GroupByTx(bk, args, splits_data, i, tx_map) ==
    IF i > Len(splits_data) THEN tx_map
    ELSE LET tx      == splits_data[i][2]
             known   == \E k \in 1..Len(tx_map) : tx_map[k].guid = tx.guid
             notes   == IF NotesSupported(bk.info)
                        THEN GetTransactionNotes(bk, tx.guid) ELSE None
             entered == IF known THEN tx_map
                        ELSE Append(tx_map, [guid |-> tx.guid, tx |-> tx,
                                             notes |-> notes,
                                             splits |-> << >>])
             k       == CHOOSE k \in 1..Len(entered) :
                            entered[k].guid = tx.guid
             all     == TxSplits(bk, tx)
             added   == [j \in 1..Len(all) |->
                            FullTxSplitRow(bk, args, tx, entered[k].notes,
                                           all[j])]
         IN  GroupByTx(bk, args, splits_data, i + 1,
                       [entered EXCEPT ![k].splits = @ \o added])

\* "Dedupe splits by guid": the first row of each split guid is kept.
UniqueSplits(rows) ==
    LET first(i) == \A j \in 1..(i - 1) : rows[j].split_guid # rows[i].split_guid
        RECURSIVE Keep(_)
        Keep(i) == IF i > Len(rows) THEN << >>
                   ELSE (IF first(i) THEN << rows[i] >> ELSE << >>)
                        \o Keep(i + 1)
    IN  Keep(1)

SplitsToTransactions(bk, splits_data, args) ==
    LET tx_map == GroupByTx(bk, args, splits_data, 1, << >>)
    IN  [k \in 1..Len(tx_map) |->
            TransactionRow(tx_map[k].guid, tx_map[k].tx.post_date,
                           tx_map[k].tx.description, tx_map[k].notes,
                           UniqueSplits(tx_map[k].splits))]

\* key_map.get(sort_key, key_map["date"])
SortKey(row, sort_key) ==
    CASE sort_key = "amount"      -> row.amount
      [] sort_key = "account"     -> row.account
      [] sort_key = "description" -> row.description
      [] OTHER                    -> row.date

\* k1 < k2 on the values of a sort key: text for account and description,
\* numbers for date and amount.
KeyLess(sort_key, k1, k2) ==
    IF sort_key \in {"account", "description"} THEN StrLess(k1, k2)
    ELSE k1 < k2

\* x goes before e in the sorted order.
GoesBefore(sort_key, reverse, x, e) ==
    IF reverse
    THEN KeyLess(sort_key, SortKey(e, sort_key), SortKey(x, sort_key))
    ELSE KeyLess(sort_key, SortKey(x, sort_key), SortKey(e, sort_key))

\* sorted(rows, key=key_fn, reverse=reverse): a stable sort; with reverse
\* the order of the keys is reversed and equal keys keep their input order.
\* Each row is placed behind every row already placed that it does not
\* strictly precede.
\* x placed in front of the first row it strictly precedes (`later` holds
\* the positions of those rows), behind everything else.
PlaceStable(placed, x, later) ==
    LET pos == IF later = { } THEN Len(placed) + 1
               ELSE CHOOSE j \in later : \A m \in later : j <= m
    IN  SubSeq(placed, 1, pos - 1) \o << x >>
            \o SubSeq(placed, pos, Len(placed))

RECURSIVE SortedFrom(_, _, _, _, _)
SortedFrom(rows, i, placed, sort_key, reverse) ==
    IF i > Len(rows) THEN placed
    ELSE LET x     == rows[i]
             later == { j \in 1..Len(placed) :
                          GoesBefore(sort_key, reverse, x, placed[j]) }
         IN  SortedFrom(rows, i + 1, PlaceStable(placed, x, later),
                        sort_key, reverse)

\* Variant: reverse=True as the ascending stable sort read backwards.
SortRowsThenReversed(rows, sort_key, reverse) ==
    LET up == SortedFrom(rows, 1, << >>, sort_key, FALSE)
    IN  IF reverse THEN [i \in 1..Len(up) |-> up[Len(up) + 1 - i]] ELSE up

\* sorted() compares the keys of two or more rows; a description that is
\* None does not compare: TypeError.
SortRaises(rows, sort_key) ==
    /\ sort_key = "description"
    /\ Len(rows) >= 2
    /\ \E i \in 1..Len(rows) : rows[i].description = NoDescription

SortRows(rows, sort_key, reverse) ==
    SortedFrom(rows, 1, << >>, sort_key, reverse)

\* accounts.sort(key=lambda a: a.fullname)
RECURSIVE SortedAccountsFrom(_, _, _)
SortedAccountsFrom(accounts, i, placed) ==
    IF i > Len(accounts) THEN placed
    ELSE LET x     == accounts[i]
             later == { j \in 1..Len(placed) :
                          StrLess(x.fullname, placed[j].fullname) }
         IN  SortedAccountsFrom(accounts, i + 1, PlaceStable(placed, x, later))

SortAccounts(accounts) == SortedAccountsFrom(accounts, 1, << >>)

\* rows[k:] and rows[:n] of a Python list.
SliceFrom(rows, k) ==
    LET start == IF k < 0 THEN (IF Len(rows) + k < 0 THEN 0 ELSE Len(rows) + k)
                 ELSE k
    IN  SubSeq(rows, start + 1, Len(rows))

SliceTo(rows, n) ==
    LET stop == IF n < 0 THEN (IF Len(rows) + n < 0 THEN 0 ELSE Len(rows) + n)
                ELSE Min(n, Len(rows))
    IN  SubSeq(rows, 1, stop)

\* "Limit/offset": `if args.offset: rows = rows[args.offset:]` and then
\* `if args.limit: rows = rows[:args.limit]`.
Paginate(rows, args) ==
    LET skipped == IF TruthyInt(args.offset)
                   THEN SliceFrom(rows, Val(args.offset)) ELSE rows
    IN  IF TruthyInt(args.limit) THEN SliceTo(skipped, Val(args.limit))
        ELSE skipped

(***************************************************************************)
(* The commands.  Each yields what one invocation leaves behind: how it    *)
(* ended, its exit code, whether the book store was opened, the tuples     *)
(* selected, the target currency resolved for them, the rows before and    *)
(* after sorting and what the formatter was handed.                        *)
(***************************************************************************)
NoOutput == [kind |-> "none", rows |-> << >>]

Outcome(pc, rc, opened, matching_splits, target_currency, split_rows, sorted_rows, formatted) ==
    [pc |-> pc, rc |-> rc, opened |-> opened,
     matching_splits |-> matching_splits,
     target_currency |-> target_currency, split_rows |-> split_rows,
     sorted_rows |-> sorted_rows, formatted |-> formatted]

\* `return rc` with nothing handed to the formatter.
Returns(rc, opened) ==
    Outcome("returned", Some(rc), opened, << >>, None, << >>, << >>,
            NoOutput)

\* An exception no handler of the command catches.
Raises(opened) ==
    Outcome("raised", None, opened, << >>, None, << >>, << >>, NoOutput)

\* get_account_by_pattern fails when the supplied regex does not compile.
ResolveFails(pattern, is_regex) == ~Compile(pattern, is_regex, FALSE).ok

Guids(accounts) == { accounts[i].guid : i \in 1..Len(accounts) }

CmdAccounts(bk, args) ==
    IF ~BookOpens(bk) THEN Returns(2, TRUE)
    ELSE IF ResolveFails(args.pattern, args.regex) THEN Raises(TRUE)
    ELSE
    LET accounts == GetAccountByPattern(bk, args.pattern, args.regex,
                                        args.case_sensitive, TRUE)
        sorted   == SortAccounts(accounts)
        row(acc) ==
            AccountRow(acc.fullname, acc.type,
                       IF IsSet(acc.commodity) THEN Val(acc.commodity) ELSE "",
                       IF args.show_guids THEN Some(acc.guid) ELSE None,
                       IF args.tree
                       THEN Len(SelectSeq(acc.fullname, LAMBDA c : c = 58))
                       ELSE 0)
        rows     == [i \in 1..Len(sorted) |-> row(sorted[i])]
    IN  IF accounts = << >> THEN Returns(1, TRUE)
        ELSE Outcome("returned", Some(0), TRUE, << >>, None, << >>, rows,
                     [kind |-> "accounts", rows |-> Paginate(rows, args)])

\* Variant: --no-subtree is not passed on to the resolver.
GrepAccountsAlwaysSubtree(bk, args) ==
    IF TruthyStr(args.account)
    THEN GetAccountByPattern(bk, Val(args.account), args.account_regex,
                             FALSE, TRUE)
    ELSE SelectSeq(bk.accounts, LAMBDA a : a.type \notin {"ROOT", "TRADING"})

\* Variant: every account is scanned, whatever --account names.
GrepAccountsScanAll(bk, args) ==
    SelectSeq(bk.accounts, LAMBDA a : a.type \notin {"ROOT", "TRADING"})

\* The accounts cmd_grep scans: those --account resolves to, or every
\* account that is neither ROOT nor TRADING.
GrepAccounts(bk, args) ==
    IF TruthyStr(args.account)
    THEN GetAccountByPattern(bk, Val(args.account), args.account_regex,
                             FALSE, ~args.no_subtree)
    ELSE SelectSeq(bk.accounts, LAMBDA a : a.type \notin {"ROOT", "TRADING"})

\* account_set: set(accounts) under --account, None otherwise.
GrepAccountSet(bk, args) ==
    IF TruthyStr(args.account) THEN Some(Guids(GrepAccounts(bk, args)))
    ELSE None

\* cmd_grep from "Format output" on, for a non-empty matching_splits.
GrepReport(bk, args, matching_splits, split_rows, rows) ==
    Outcome("returned", Some(0), TRUE, matching_splits,
            TargetCurrency(matching_splits, args), split_rows, rows,
            IF args.full_tx
            THEN [kind |-> "transactions",
                  rows |-> SplitsToTransactions(bk, matching_splits, args)]
            ELSE [kind |-> "splits", rows |-> Paginate(rows, args)])

CmdGrep(bk, args) ==
    LET pattern == Compile(args.text, args.regex, args.case_sensitive)
    IN
    IF ~pattern.ok THEN Returns(2, FALSE)
    ELSE IF ~BookOpens(bk) THEN Returns(2, TRUE)
    ELSE IF TruthyStr(args.account)
            /\ ResolveFails(Val(args.account), args.account_regex)
    THEN Raises(TRUE)
    ELSE
    IF GrepRaises(bk, args, GrepAccountSet(bk, args),
                  Candidates(bk, GrepAccounts(bk, args)))
    THEN Raises(TRUE)
    ELSE
    LET matching_splits ==
            GrepLoop(bk, args, pattern, GrepAccountSet(bk, args),
                     Candidates(bk, GrepAccounts(bk, args)), 1, { }, << >>)
        split_rows == SplitsToRows(bk, matching_splits, args)
    IN  IF matching_splits = << >> THEN Returns(1, TRUE)
        ELSE IF SortRaises(split_rows, args.sort) THEN Raises(TRUE)
        ELSE GrepReport(bk, args, matching_splits, split_rows,
                        SortRows(split_rows, args.sort, args.reverse))

CmdLedger(bk, args) ==
    IF ~BookOpens(bk) THEN Returns(2, TRUE)
    ELSE IF ResolveFails(args.account_pattern, args.account_regex)
    THEN Raises(TRUE)
    ELSE
    LET accounts    == GetAccountByPattern(bk, args.account_pattern,
                                           args.account_regex, FALSE,
                                           ~args.no_subtree)
        splits_data == LedgerLoop(args, Candidates(bk, accounts))
        split_rows  == SplitsToRows(bk, splits_data, args)
        rows        == SortRows(split_rows, args.sort, args.reverse)
    IN  IF accounts = << >> THEN Returns(1, TRUE)
        ELSE IF splits_data = << >> THEN Returns(1, TRUE)
        ELSE IF SortRaises(split_rows, args.sort) THEN Raises(TRUE)
        ELSE Outcome("returned", Some(0), TRUE, splits_data,
                     TargetCurrency(splits_data, args), split_rows, rows,
                     [kind |-> "splits", rows |-> Paginate(rows, args)])

\* The SplitRow cmd_tx and cmd_split build: the signed value in the
\* currency of the account, no conversion.
GuidSplitRow(bk, tx, notes, split) ==
    LET acc == AccountByGuid(bk, split.account)
    IN  SplitRow(tx.post_date, tx.description, acc.fullname, split.memo,
                 notes, split.value,
                 IF IsSet(acc.commodity) THEN Val(acc.commodity) ELSE "",
                 None, tx.guid, split.guid)

\* tx GUID: the transaction of that guid with all of its splits.
CmdTx(bk, args) ==
    IF ~BookOpens(bk) THEN Returns(2, TRUE)
    ELSE
    LET found == SelectSeq(bk.transactions, LAMBDA t : t.guid = args.guid)
    IN  IF found = << >> THEN Returns(1, TRUE)
        ELSE LET tx     == Head(found)
                 notes  == GetTransactionNotes(bk, tx.guid)
                 splits == TxSplits(bk, tx)
                 tx_row == TransactionRow(
                               tx.guid, tx.post_date, tx.description, notes,
                               [i \in 1..Len(splits) |->
                                   GuidSplitRow(bk, tx, notes, splits[i])])
             IN  Outcome("returned", Some(0), TRUE, << >>, None, << >>,
                         << >>,
                         [kind |-> "transactions", rows |-> << tx_row >>])

\* split GUID: the split of that guid; guids arrive as text.
CmdSplit(bk, args) ==
    IF ~BookOpens(bk) THEN Returns(2, TRUE)
    ELSE
    LET found == SelectSeq(Candidates(bk, bk.accounts),
                           LAMBDA cand : ToString(cand[1].guid) = args.guid)
    IN  IF found = << >> THEN Returns(1, TRUE)
        ELSE LET found_split == Head(found)[1]
                 found_tx    == Head(found)[2]
                 notes       == GetTransactionNotes(bk, found_tx.guid)
                 row         == GuidSplitRow(bk, found_tx, notes, found_split)
             IN  Outcome("returned", Some(0), TRUE, << >>, None, << >>,
                         << >>, [kind |-> "splits", rows |-> << row >>])

\* main(): the command the arguments name.
Main(bk, args) ==
    CASE args.command = "accounts" -> CmdAccounts(bk, args)
      [] args.command = "grep"     -> CmdGrep(bk, args)
      [] args.command = "ledger"   -> CmdLedger(bk, args)
      [] args.command = "tx"       -> CmdTx(bk, args)
      [] args.command = "split"    -> CmdSplit(bk, args)

(***************************************************************************)
(* The invocations explored: every option is varied, in groups of options  *)
(* that act together, around the defaults of the parser.                   *)
(***************************************************************************)
OptDates == {None} \cup { Some(d) : d \in Dates }

DateRanges == { Some(ParseDateRange(a, b)) : a \in OptDates, b \in OptDates }

AmountCuts == {None, Some(-3), Some(4), Some(5)}

AmountRanges ==
    {None} \cup { Some(ParseAmountRange(lo, hi)) :
                     lo \in AmountCuts, hi \in AmountCuts }

Pages == {None} \cup { Some(n) : n \in 0..MaxPage }

Texts == {Str_empty, Str_a, Str_b, Str_B, Str_Ab, Str_ab, Str_dot,
          Str_paren, Str_b_a}

AccountPatterns == {Str_empty, Str_A, Str_a, Str_AB, Str_B, Str_E, Str_T,
                    Str_A_end,
                    Str_dot, Str_paren}

FieldSets == { {"desc", "memo", "notes"}, {"desc"}, {"memo"}, {"notes"} }

CurrencyModes == {"auto", "base", "split", "account"}

\* --after / --before alone, and --date A..B against them.
DateArgs ==
    { [DefaultArgs EXCEPT !.after = a, !.before = b] :
        a \in OptDates, b \in OptDates }
    \cup
    { [DefaultArgs EXCEPT !.date = r, !.after = a, !.before = b] :
        r \in DateRanges, a \in {None, Some(MaxDate)}, b \in {None, Some(1)} }

AmountArgs ==
    { [DefaultArgs EXCEPT !.amount = r, !.signed = sg] :
        r \in AmountRanges, sg \in BOOLEAN }

PageArgs ==
    { [DefaultArgs EXCEPT !.sort = k, !.reverse = rv, !.offset = o,
                          !.limit = l] :
        k \in {"date", "amount", "account", "description"},
        rv \in BOOLEAN, o \in Pages, l \in Pages }

CurrencyArgs ==
    { [DefaultArgs EXCEPT !.currency = m, !.base_currency = bc,
                          !.also_original = ao, !.fx_lookback = lb,
                          !.sort = k] :
        m \in CurrencyModes, bc \in {None, Some("USD"), Some("")},
        ao \in BOOLEAN, lb \in {None, Some(0), Some(2)},
        k \in {"date", "amount"} }

TextArgs ==
    { [DefaultArgs EXCEPT !.text = t, !.regex = re, !.case_sensitive = cs,
                          !.search_fields = sf] :
        t \in Texts, re \in BOOLEAN, cs \in BOOLEAN, sf \in FieldSets }

GroupingArgs ==
    { [DefaultArgs EXCEPT !.text = t, !.search_fields = sf, !.dedupe = dd,
                          !.full_tx = ft, !.account = ac, !.amount = am] :
        t \in {Str_empty, Str_a, Str_b},
        sf \in { {"desc", "memo", "notes"}, {"memo"} },
        dd \in {"tx", "split"}, ft \in BOOLEAN,
        ac \in {None, Some(Str_A), Some(Str_E)},
        am \in {None, Some(ParseAmountRange(None, Some(5)))} }
    \cup
    { [DefaultArgs EXCEPT !.full_tx = TRUE, !.sort = k, !.reverse = rv,
                          !.offset = o, !.limit = l] :
        k \in {"date", "description"}, rv \in BOOLEAN,
        o \in {None, Some(1)}, l \in {None, Some(1)} }

GrepAccountArgs ==
    { [DefaultArgs EXCEPT !.account = Some(p), !.account_regex = re,
                          !.no_subtree = ns] :
        p \in AccountPatterns, re \in BOOLEAN, ns \in BOOLEAN }

\* The text queries of the "Office Supplies" scenario.
ScenarioArgs ==
    { [DefaultArgs EXCEPT !.text = t, !.regex = re, !.case_sensitive = cs,
                          !.dedupe = dd, !.account = ac] :
        t \in {Str_supplies, Str_SUPPLIES}, re \in BOOLEAN, cs \in BOOLEAN,
        dd \in {"tx", "split"}, ac \in {None, Some(Str_Office)} }

GrepArgs ==
    DateArgs \cup AmountArgs \cup PageArgs \cup CurrencyArgs \cup TextArgs
        \cup GroupingArgs \cup GrepAccountArgs \cup ScenarioArgs

\* ledger takes the account pattern as its positional argument.
LedgerArgs ==
    { [a EXCEPT !.command = "ledger", !.account_pattern = p] :
        a \in DateArgs \cup AmountArgs \cup PageArgs \cup CurrencyArgs,
        p \in {Str_empty} }
    \cup
    { [DefaultArgs EXCEPT !.command = "ledger", !.account_pattern = p,
                          !.account_regex = re, !.no_subtree = ns] :
        p \in AccountPatterns, re \in BOOLEAN, ns \in BOOLEAN }

AccountsArgs ==
    { [DefaultArgs EXCEPT !.command = "accounts", !.pattern = p,
                          !.regex = re, !.case_sensitive = cs,
                          !.tree = tr, !.show_guids = sg] :
        p \in AccountPatterns, re \in BOOLEAN, cs \in BOOLEAN,
        tr \in BOOLEAN, sg \in {FALSE} }
    \cup
    { [DefaultArgs EXCEPT !.command = "accounts", !.offset = o, !.limit = l,
                          !.show_guids = sg] :
        o \in Pages, l \in Pages, sg \in BOOLEAN }

\* tx GUID and split GUID, for a guid of the book and one that is not.
TxArgs ==
    { [DefaultArgs EXCEPT !.command = "tx", !.guid = g] :
        g \in {"t1", "s1", "t9"} }

SplitArgs ==
    { [DefaultArgs EXCEPT !.command = "split", !.guid = g] :
        g \in {"1", "4", "9"} }

\* The currency options of a second query that is otherwise the same.
CurrencyOptions ==
    { [currency |-> "base", base_currency |-> Some("USD"),
       also_original |-> TRUE, fx_lookback |-> Some(2)],
      [currency |-> "account", base_currency |-> None,
       also_original |-> FALSE, fx_lookback |-> None] }

WithCurrencyOptions(a, c) ==
    [a EXCEPT !.currency = c.currency, !.base_currency = c.base_currency,
              !.also_original = c.also_original,
              !.fx_lookback = c.fx_lookback]

(***************************************************************************)
(* The interactive session (repl.py): the session object, the store        *)
(* handles it acquires and the command lines it is given.                  *)
(***************************************************************************)
\* Handles one session may acquire with `open`.
MaxOpens == 3

\* ReplSession.__init__
NewSession ==
    [book |-> None, book_info |-> None, book_ctx |-> None, running |-> TRUE,
     output_format |-> Config.output_format,
     currency_mode |-> Config.currency_mode,
     base_currency |-> Config.base_currency]

\* The book stores a session can name: the configured path, another book
\* and a path at which there is no book.
StoreAt(bk, path) ==
    CASE path = "configured" -> bk
      [] path = "other"      -> ScenarioBook
      [] OTHER               -> MissingBook

\* Path(path).expanduser() raises RuntimeError for the home directory of a
\* user that does not exist.
ExpandUserFails(path) == path = "~nouser"

\* `if path` on the Optional[str] argument of open_book.
GivenPath(path) == IsSet(path) /\ Val(path) # ""

\* A handle as acquired: open, at its path, never closed.
Handle(path) == [path |-> path, closes |-> 0]

\* Closing handle h, by book.close() or by the exit of its context.
Close(hs, h) == [hs EXCEPT ![h].closes = @ + 1]

\* Variant: open_book drops the reference to the book it holds without
\* closing it.
OpenBookKeepsOld(bk, sess, hs, path) ==
    LET held      == IsSet(sess.book)
        dropped   == IF held THEN [sess EXCEPT !.book = None,
                                               !.book_info = None]
                     ELSE sess
        book_path == IF GivenPath(path) THEN Val(path) ELSE "configured"
        h         == Len(hs) + 1
    IN  IF GivenPath(path) /\ ExpandUserFails(Val(path))
        THEN [session |-> dropped, handles |-> hs, raised |-> TRUE]
        ELSE IF BookOpens(StoreAt(bk, book_path))
        THEN [session |-> [dropped EXCEPT
                              !.book = Some(h),
                              !.book_info = Some(StoreAt(bk, book_path).info),
                              !.book_ctx = Some(h)],
              handles |-> Append(hs, Handle(book_path)),
              raised  |-> FALSE]
        ELSE [session |-> dropped, handles |-> hs, raised |-> FALSE]

\* Variant: when the new book cannot be opened the session keeps its
\* reference to the book it has just closed.
OpenBookFailureKeepsBook(bk, sess, hs, path) ==
    LET held      == IsSet(sess.book)
        closed    == IF held THEN Close(hs, Val(sess.book)) ELSE hs
        dropped   == IF held THEN [sess EXCEPT !.book = None,
                                               !.book_info = None]
                     ELSE sess
        book_path == IF GivenPath(path) THEN Val(path) ELSE "configured"
        h         == Len(closed) + 1
    IN  IF GivenPath(path) /\ ExpandUserFails(Val(path))
        THEN [session |-> dropped, handles |-> closed, raised |-> TRUE]
        ELSE IF BookOpens(StoreAt(bk, book_path))
        THEN [session |-> [dropped EXCEPT
                              !.book = Some(h),
                              !.book_info = Some(StoreAt(bk, book_path).info),
                              !.book_ctx = Some(h)],
              handles |-> Append(closed, Handle(book_path)),
              raised  |-> FALSE]
        ELSE [session |-> sess, handles |-> closed, raised |-> FALSE]

\* ReplSession.open_book(path): the book held is closed and forgotten, then
\* the book at the path (the configured one without a path) is opened and
\* kept together with its context; BookOpenError is reported and leaves the
\* session without a book.
OpenBook(bk, sess, hs, path) ==
    LET held      == IsSet(sess.book)
        closed    == IF held THEN Close(hs, Val(sess.book)) ELSE hs
        dropped   == IF held THEN [sess EXCEPT !.book = None,
                                               !.book_info = None]
                     ELSE sess
        book_path == IF GivenPath(path) THEN Val(path) ELSE "configured"
        h         == Len(closed) + 1
    IN  IF GivenPath(path) /\ ExpandUserFails(Val(path))
        THEN [session |-> dropped, handles |-> closed, raised |-> TRUE]
        ELSE IF BookOpens(StoreAt(bk, book_path))
        THEN [session |-> [dropped EXCEPT
                              !.book = Some(h),
                              !.book_info = Some(StoreAt(bk, book_path).info),
                              !.book_ctx = Some(h)],
              handles |-> Append(closed, Handle(book_path)),
              raised  |-> FALSE]
        ELSE [session |-> dropped, handles |-> closed, raised |-> FALSE]

\* ReplSession.close_book(): the recorded context is exited if a book is
\* held.
CloseBook(sess, hs) ==
    IF IsSet(sess.book)
    THEN [session |-> [sess EXCEPT !.book = None, !.book_info = None],
          handles |-> Close(hs, Val(sess.book_ctx))]
    ELSE [session |-> sess, handles |-> hs]

\* str.upper() on the currency codes typed.
Upper(value) ==
    CASE value = "usd" -> "USD"
      [] value = "eur" -> "EUR"
      [] OTHER         -> value

\* ReplSession.cmd_set(args)
CmdSet(sess, words) ==
    IF Len(words) < 2 THEN sess
    ELSE LET setting == words[1]
             value   == words[2]
         IN  CASE setting = "format" ->
                    IF value \in {"table", "csv", "json"}
                    THEN [sess EXCEPT !.output_format = value] ELSE sess
               [] setting = "currency" ->
                    IF value \in {"auto", "base", "split", "account"}
                    THEN [sess EXCEPT !.currency_mode = value] ELSE sess
               [] setting = "base-currency" ->
                    [sess EXCEPT !.base_currency = Upper(value)]
               [] OTHER -> sess

QueryCommands == {"accounts", "grep", "ledger", "tx", "split"}

\* The options of the main parser; a subcommand's parser does not know them.
GlobalOptions ==
    {"--book", "--format", "--no-header", "--fields", "--sort", "--reverse",
     "--limit", "--offset"}

\* The argv a query handler of the session builds: the command, the words
\* the user typed after it (as the namespace they parse to) and the options
\* the handler appends.  None when the handler stops at its usage message.
ReplArgv(sess, cmd, typed) ==
    IF cmd # "accounts" /\ typed = None THEN None
    ELSE Some([command  |-> cmd,
               typed    |-> IF typed = None
                            THEN [DefaultArgs EXCEPT !.command = "accounts"]
                            ELSE Val(typed),
               appended |->
                   << << "--format", sess.output_format >> >>
                   \o (IF cmd \in {"grep", "ledger"}
                       THEN << << "--currency", sess.currency_mode >>,
                               << "--base-currency", sess.base_currency >> >>
                       ELSE << >>)])

\* The namespace the appended options are meant to give.
RECURSIVE WithAppended(_, _)
WithAppended(a, appended) ==
    IF appended = << >> THEN a
    ELSE LET option == Head(appended)[1]
             value  == Head(appended)[2]
         IN  WithAppended(
                 CASE option = "--currency" -> [a EXCEPT !.currency = value]
                   [] option = "--base-currency" ->
                        [a EXCEPT !.base_currency = Some(value)]
                   [] OTHER -> a,
                 Tail(appended))

\* parser.parse_args(argv): an option of the main parser that follows the
\* subcommand is an unrecognized argument, and the parser exits
\* (SystemExit): None.
ParseArgs(argv) ==
    IF \E i \in 1..Len(argv.appended) : argv.appended[i][1] \in GlobalOptions
    THEN None
    ELSE Some(WithAppended(argv.typed, argv.appended))

\* ReplSession._run_cli_command(argv): None when the parser exits,
\* otherwise what the command leaves behind; the command is run with the
\* configuration of the session, so on the book at the configured path.
RunCliCommand(bk, argv) ==
    LET parsed == ParseArgs(argv)
    IN  IF parsed = None THEN None
        ELSE Some(Main(StoreAt(bk, "configured"), Val(parsed)))

\* The command lines explored.
OpenPaths == {None, Some("other"), Some("missing"), Some("~nouser")}

SetWords ==
    { << >>, << "format" >>, << "format", "json" >>, << "format", "xml" >>,
      << "currency", "base" >>, << "currency", "bogus" >>,
      << "base-currency", "usd" >>, << "colour", "red" >> }

TypedArgs(cmd) ==
    CASE cmd = "accounts" -> {None}
      [] cmd = "grep"     -> {None, Some([DefaultArgs EXCEPT !.text = Str_a])}
      [] cmd = "ledger"   ->
            {None, Some([DefaultArgs EXCEPT !.command = "ledger",
                                            !.account_pattern = Str_A])}
      [] cmd = "tx"       ->
            {None, Some([DefaultArgs EXCEPT !.command = "tx",
                                            !.guid = "t1"])}
      [] cmd = "split"    ->
            {None, Some([DefaultArgs EXCEPT !.command = "split",
                                            !.guid = "4"])}
      [] OTHER            -> {None}

\* The configured books of the sessions explored.
ReplBooks ==
    { MkBook(1, "a1", "EUR", "none", FALSE),
      MkBook(2, "a1", "USD", "column", TRUE),
      MissingBook }

(***************************************************************************)
(* State.                                                                  *)
(***************************************************************************)
(* The sidecar cache (gcg.cache.CacheManager) and cmd_cache.  The cache    *)
(* file records when it was built and how many splits it holds.            *)
(***************************************************************************)
\* The number of cache commands of one run.
MaxOps == 3

\* cache_mgr.status()
CacheStatus(c) ==
    IF IsSet(c)
    THEN [exists |-> TRUE, modified |-> Some(Val(c).modified),
          split_count |-> Some(Val(c).split_count)]
    ELSE [exists |-> FALSE, modified |-> None, split_count |-> None]

\* cache_mgr.build(book, info, force): the file after the call.  With a
\* cache present and no force nothing is written.
CacheBuild(c, bk, force, now) ==
    IF IsSet(c) /\ ~force THEN c
    ELSE Some([modified |-> now, split_count |-> Len(bk.splits)])

\* cache_mgr.drop(): the file after the call and whether one was removed.
CacheDrop(c) == [cache |-> None, removed |-> IsSet(c)]

\* What one `gcg cache ACTION` leaves behind: the cache file, the exit
\* code, the status it printed and whether it reported a removal.
CacheOutcome(c, rc, shown, removed) ==
    [cache |-> c, rc |-> rc, shown |-> shown, removed |-> removed]

\* Variant: build always forces a rebuild.
CmdCacheAlwaysForce(bk, c, action, force, now) ==
    CASE action = "status" ->
            CacheOutcome(c, 0, Some(CacheStatus(c)), None)
      [] action = "build" ->
            IF ~BookOpens(bk) THEN CacheOutcome(c, 2, None, None)
            ELSE CacheOutcome(CacheBuild(c, bk, TRUE, now), 0, None, None)
      [] action = "drop" ->
            CacheOutcome(CacheDrop(c).cache, 0, None,
                         Some(CacheDrop(c).removed))

CmdCache(bk, c, action, force, now) ==
    CASE action = "status" ->
            CacheOutcome(c, 0, Some(CacheStatus(c)), None)
      [] action = "build" ->
            IF ~BookOpens(bk) THEN CacheOutcome(c, 2, None, None)
            ELSE CacheOutcome(CacheBuild(c, bk, force, now), 0, None, None)
      [] action = "drop" ->
            CacheOutcome(CacheDrop(c).cache, 0, None,
                         Some(CacheDrop(c).removed))

\* The books the cache commands run against.
CacheBooks ==
    { MkBook(1, "a1", "EUR", "none", FALSE), ScenarioBook, MissingBook }

(***************************************************************************)
VARIABLES
    book,             \* the book at the configured path
    pc,               \* "ready", or how the last command ended
    args,             \* the arguments of the last command
    rc,               \* its exit code
    opened,           \* whether it opened the book store
    matching_splits,  \* the (split, tx, acc) tuples it selected
    target_currency,  \* the target currency _splits_to_rows resolved
    split_rows,       \* the rows of _splits_to_rows
    sorted_rows,      \* the rows after sorting, before offset and limit
    formatted,        \* what the formatter was handed
    prev,             \* the query before it, when this one repeats it
    session,          \* the ReplSession of an interactive run
    handles,          \* the store handles the session acquired, in order
    repl_pc,          \* where run_repl is: "off", "start", "prompt", or
                      \* how it ended
    line,             \* the command line the session read last
    cache,            \* the sidecar cache file, None when there is none
    cache_log         \* the cache commands run so far, with what they did

cliVars == << pc, args, rc, opened, matching_splits, target_currency,
             split_rows, sorted_rows, formatted >>

replVars == << session, handles, repl_pc, line >>

cacheVars == << cache, cache_log >>

vars == << book, cliVars, prev, replVars, cacheVars >>

NoLine == [cmd |-> "", typed |-> None]

Init ==
    /\ book \in Books \cup {MissingBook}
    /\ pc = "ready"
    /\ args = DefaultArgs
    /\ rc = None
    /\ opened = FALSE
    /\ matching_splits = << >>
    /\ target_currency = None
    /\ split_rows = << >>
    /\ sorted_rows = << >>
    /\ formatted = NoOutput
    /\ prev = None
    /\ session = NewSession
    /\ handles = << >>
    /\ repl_pc = "off"
    /\ line = NoLine
    /\ cache = None
    /\ cache_log = << >>

\* One invocation of gcg with the arguments a, start to finish.
Invoke(a) ==
    \E out \in {Main(book, a)} :
        /\ args' = a
        /\ pc' = out.pc
        /\ rc' = out.rc
        /\ opened' = out.opened
        /\ matching_splits' = out.matching_splits
        /\ target_currency' = out.target_currency
        /\ split_rows' = out.split_rows
        /\ sorted_rows' = out.sorted_rows
        /\ formatted' = out.formatted
        /\ UNCHANGED << book, cacheVars, replVars >>

RunAccounts ==
    /\ pc = "ready"
    /\ \E a \in AccountsArgs : Invoke(a)
    /\ prev' = None

RunGrep ==
    /\ pc = "ready"
    /\ \E a \in GrepArgs : Invoke(a)
    /\ prev' = None

RunLedger ==
    /\ pc = "ready"
    /\ \E a \in LedgerArgs : Invoke(a)
    /\ prev' = None

RunTx ==
    /\ pc = "ready"
    /\ \E a \in TxArgs : Invoke(a)
    /\ prev' = None

RunSplit ==
    /\ pc = "ready"
    /\ \E a \in SplitArgs : Invoke(a)
    /\ prev' = None

\* The same grep or ledger query again, over the same book, with other
\* currency options.
Requery ==
    /\ pc # "ready"
    /\ prev = None
    /\ args.command \in {"grep", "ledger"}
    /\ \E c \in CurrencyOptions :
          /\ WithCurrencyOptions(args, c) # args
          /\ Invoke(WithCurrencyOptions(args, c))
    /\ prev' = Some([args |-> args, pc |-> pc, rc |-> rc,
                     matching_splits |-> matching_splits,
                     split_rows |-> split_rows])

\* The process has ended; the next invocation starts afresh.
NextInvocation ==
    /\ pc # "ready"
    /\ pc' = "ready"
    /\ args' = DefaultArgs
    /\ rc' = None
    /\ opened' = FALSE
    /\ matching_splits' = << >>
    /\ target_currency' = None
    /\ split_rows' = << >>
    /\ sorted_rows' = << >>
    /\ formatted' = NoOutput
    /\ prev' = None
    /\ UNCHANGED << book, cacheVars, replVars >>

Next ==
    \/ RunAccounts
    \/ RunGrep
    \/ RunLedger
    \/ RunTx
    \/ RunSplit
    \/ Requery
    \/ NextInvocation

Spec == Init /\ [][Next]_vars

(***************************************************************************)
(* The interactive session: run_repl and ReplSession.run_command, one      *)
(* action per kind of command line.                                        *)
(***************************************************************************)
ReplInit ==
    /\ book \in ReplBooks
    /\ pc = "ready"
    /\ args = DefaultArgs
    /\ rc = None
    /\ opened = FALSE
    /\ matching_splits = << >>
    /\ target_currency = None
    /\ split_rows = << >>
    /\ sorted_rows = << >>
    /\ formatted = NoOutput
    /\ prev = None
    /\ session = NewSession
    /\ handles = << >>
    /\ repl_pc = "start"
    /\ line = NoLine
    /\ cache = None
    /\ cache_log = << >>

\* The session waits for a command line.
AtPrompt == repl_pc = "prompt" /\ session.running

\* run_repl up to its loop: the book at the configured path is opened, if
\* there is one.
ReplStart ==
    /\ repl_pc = "start"
    /\ \E o \in {OpenBook(book, session, handles, None)} :
          /\ session' = o.session
          /\ handles' = o.handles
    /\ repl_pc' = "prompt"
    /\ UNCHANGED << book, cacheVars, cliVars, prev, line >>

\* The `finally` of run_repl: the history is saved and the book closed.
Finally(sess, hs, ended) ==
    \E c \in {CloseBook(sess, hs)} :
        /\ session' = c.session
        /\ handles' = c.handles
        /\ repl_pc' = ended

\* A blank line, a comment or a line shlex cannot split: nothing is run.
ReplSkip ==
    /\ AtPrompt
    /\ \E l \in {"", "#", "'"} : line' = [cmd |-> l, typed |-> None]
    /\ UNCHANGED << book, cacheVars, cliVars, prev, session, handles, repl_pc >>

\* KeyboardInterrupt at the prompt: the loop continues.
ReplInterrupt ==
    /\ AtPrompt
    /\ line' = [cmd |-> "^C", typed |-> None]
    /\ UNCHANGED << book, cacheVars, cliVars, prev, session, handles, repl_pc >>

ReplHelp ==
    /\ AtPrompt
    /\ line' = [cmd |-> "help", typed |-> None]
    /\ UNCHANGED << book, cacheVars, cliVars, prev, session, handles, repl_pc >>

\* quit / exit
ReplQuit ==
    /\ AtPrompt
    /\ session' = [session EXCEPT !.running = FALSE]
    /\ line' = [cmd |-> "quit", typed |-> None]
    /\ UNCHANGED << book, cacheVars, cliVars, prev, handles, repl_pc >>

\* open [PATH]; an exception other than BookOpenError leaves the loop
\* through the `finally` of run_repl.
ReplOpen ==
    /\ AtPrompt
    /\ Len(handles) < MaxOpens
    /\ \E path \in OpenPaths :
          /\ line' = [cmd |-> "open", typed |-> path]
          /\ \E o \in {OpenBook(book, session, handles, path)} :
                IF o.raised
                THEN Finally(o.session, o.handles, "raised")
                ELSE /\ session' = o.session
                     /\ handles' = o.handles
                     /\ repl_pc' = "prompt"
    /\ UNCHANGED << book, cacheVars, cliVars, prev >>

\* set [SETTING VALUE]
ReplSet ==
    /\ AtPrompt
    /\ \E words \in SetWords :
          /\ line' = [cmd |-> "set", typed |-> words]
          /\ session' = CmdSet(session, words)
    /\ UNCHANGED << book, cacheVars, cliVars, prev, handles, repl_pc >>

\* Variant: a query command given while no book is held opens the
\* configured book first.
ReplQueryOpensBook ==
    /\ AtPrompt
    /\ \E cmd \in QueryCommands \cup {"bogus"} :
       \E typed \in TypedArgs(cmd) :
          /\ line' = [cmd |-> cmd, typed |-> typed]
          /\ IF IsSet(session.book) \/ Len(handles) >= MaxOpens
             THEN UNCHANGED << session, handles >>
             ELSE \E o \in {OpenBook(book, session, handles, None)} :
                     /\ session' = o.session
                     /\ handles' = o.handles
    /\ UNCHANGED << book, cacheVars, cliVars, prev, repl_pc >>

\* accounts, grep, ledger, tx, split or an unknown command: without a book
\* held nothing is run; otherwise the handler builds an argv and
\* _run_cli_command parses and runs it.  An exception of the command
\* leaves the loop through the `finally` of run_repl.
ReplQuery ==
    /\ AtPrompt
    /\ \E cmd \in QueryCommands \cup {"bogus"} :
       \E typed \in TypedArgs(cmd) :
       \E argv \in {ReplArgv(session, cmd, typed)} :
       \E ran \in {IF IsSet(session.book) /\ cmd \in QueryCommands
                      /\ IsSet(argv)
                   THEN RunCliCommand(book, Val(argv)) ELSE None} :
          /\ line' = [cmd |-> cmd, typed |-> typed]
          /\ IF ran = None
             THEN UNCHANGED << cliVars, session, handles, repl_pc >>
             ELSE /\ args' = ParseArgs(Val(argv))[1]
                  /\ pc' = Val(ran).pc
                  /\ rc' = Val(ran).rc
                  /\ opened' = Val(ran).opened
                  /\ matching_splits' = Val(ran).matching_splits
                  /\ target_currency' = Val(ran).target_currency
                  /\ split_rows' = Val(ran).split_rows
                  /\ sorted_rows' = Val(ran).sorted_rows
                  /\ formatted' = Val(ran).formatted
                  /\ IF Val(ran).pc = "raised"
                     THEN Finally(session, handles, "raised")
                     ELSE UNCHANGED << session, handles, repl_pc >>
    /\ UNCHANGED << book, cacheVars, prev >>

\* input() raises EOFError: the loop is left.
ReplEOF ==
    /\ AtPrompt
    /\ line' = [cmd |-> "EOF", typed |-> None]
    /\ Finally(session, handles, "returned")
    /\ UNCHANGED << book, cacheVars, cliVars, prev >>

\* After quit the loop condition fails.
ReplLoopEnd ==
    /\ repl_pc = "prompt"
    /\ ~session.running
    /\ Finally(session, handles, "returned")
    /\ UNCHANGED << book, cacheVars, cliVars, prev, line >>

ReplNext ==
    \/ ReplStart
    \/ ReplSkip
    \/ ReplInterrupt
    \/ ReplHelp
    \/ ReplQuit
    \/ ReplOpen
    \/ ReplSet
    \/ ReplQuery
    \/ ReplEOF
    \/ ReplLoopEnd

ReplSpec == ReplInit /\ [][ReplNext]_vars

(***************************************************************************)
(* A run of cache commands: each `gcg cache status|build|drop` is one      *)
(* process; time passes between them.                                      *)
(***************************************************************************)
CacheInit ==
    /\ book \in CacheBooks
    /\ pc = "ready"
    /\ args = DefaultArgs
    /\ rc = None
    /\ opened = FALSE
    /\ matching_splits = << >>
    /\ target_currency = None
    /\ split_rows = << >>
    /\ sorted_rows = << >>
    /\ formatted = NoOutput
    /\ prev = None
    /\ session = NewSession
    /\ handles = << >>
    /\ repl_pc = "off"
    /\ line = NoLine
    /\ cache \in {None, Some([modified |-> 0, split_count |-> Len(book.splits)])}
    /\ cache_log = << >>

\* One `gcg cache ACTION [--force]`, start to finish.
RunCache(action, force) ==
    /\ \E out \in {CmdCache(book, cache, action, force, Len(cache_log) + 1)} :
          /\ cache' = out.cache
          /\ cache_log' = Append(cache_log,
                                 [action |-> action, force |-> force,
                                  rc |-> out.rc, shown |-> out.shown,
                                  removed |-> out.removed,
                                  before |-> CacheStatus(cache),
                                  after |-> CacheStatus(out.cache)])
    /\ UNCHANGED << book, cliVars, prev, replVars >>

CacheStatusCmd ==
    /\ Len(cache_log) < MaxOps
    /\ RunCache("status", FALSE)

CacheBuildCmd ==
    /\ Len(cache_log) < MaxOps
    /\ \E force \in BOOLEAN : RunCache("build", force)

CacheDropCmd ==
    /\ Len(cache_log) < MaxOps
    /\ RunCache("drop", FALSE)

CacheNext ==
    \/ CacheStatusCmd
    \/ CacheBuildCmd
    \/ CacheDropCmd

CacheSpec == CacheInit /\ [][CacheNext]_vars

(***************************************************************************)
(* Vocabulary of the properties.                                           *)
(***************************************************************************)
\* The last command was grep or ledger and ran over an opened book.
Queried ==
    /\ pc = "returned"
    /\ book.exists
    /\ opened
    /\ args.command \in {"grep", "ledger"}

SelectedGuids ==
    { matching_splits[i][1].guid : i \in 1..Len(matching_splits) }

PostDate(s) == TxByGuid(book, s.tx).post_date

\* The splits a query scans when it names no account: grep leaves out the
\* trading accounts, ledger with the empty pattern takes every account.
AllSplits == { book.splits[i] : i \in 1..Len(book.splits) }

ScannedUnrestricted ==
    IF args.command = "grep"
    THEN { s \in AllSplits :
             AccountByGuid(book, s.account).type \notin {"ROOT", "TRADING"} }
    ELSE AllSplits

Unrestricted ==
    IF args.command = "grep" THEN args.account = None
    ELSE args.account_pattern = Str_empty

NoTextFilter == args.command = "grep" => args.text = Str_empty /\ ~args.regex

NoGrouping ==
    args.command = "grep" => args.dedupe = "split" /\ ~args.full_tx

\* after <= d < before, an unset bound not constraining.
InWindow(d, after, before) ==
    /\ (IsSet(after) => d >= Val(after))
    /\ (IsSet(before) => d < Val(before))

\* lo <= v <= hi, an unset bound not constraining.
InRange(v, lo, hi) ==
    /\ (IsSet(lo) => Val(lo) <= v)
    /\ (IsSet(hi) => v <= Val(hi))

(***************************************************************************)
(* C1: in grep and ledger a split is kept by the date filter iff           *)
(* (after is unset or post_date >= after) and (before is unset or          *)
(* post_date < before); every selected split lies in the window, and with  *)
(* no other filter every scanned split in the window is selected.          *)
(***************************************************************************)
C1_DateWindow ==
    (Queried /\ args.date = None) =>
        /\ \A i \in 1..Len(matching_splits) :
              InWindow(matching_splits[i][2].post_date, args.after,
                       args.before)
        /\ (Unrestricted /\ NoTextFilter /\ NoGrouping /\ args.amount = None)
              => \A s \in ScannedUnrestricted :
                    InWindow(PostDate(s), args.after, args.before)
                        => s.guid \in SelectedGuids

\* A split posted exactly on `after` is selected and one posted exactly on
\* `before` is not.
C1_Witness ==
    /\ Queried
    /\ args.date = None
    /\ IsSet(args.after) /\ IsSet(args.before)
    /\ \E s \in ScannedUnrestricted :
          PostDate(s) = Val(args.after) /\ s.guid \in SelectedGuids
    /\ \E s \in ScannedUnrestricted :
          PostDate(s) = Val(args.before) /\ s.guid \notin SelectedGuids

(***************************************************************************)
(* C2: with --date A..B a split is kept iff A <= post_date <= B, whatever  *)
(* --after and --before are given beside it.                               *)
(***************************************************************************)
C2_DateRangeInclusive ==
    (/\ Queried
     /\ IsSet(args.date)
     /\ IsSet(Val(args.date).start_date)
     /\ IsSet(Val(args.date).end_date)) =>
        LET A == Val(Val(args.date).start_date)
            B == Val(Val(args.date).end_date)
        IN  /\ \A i \in 1..Len(matching_splits) :
                  /\ A <= matching_splits[i][2].post_date
                  /\ matching_splits[i][2].post_date <= B
            /\ (Unrestricted /\ NoTextFilter /\ NoGrouping
                   /\ args.amount = None)
                  => \A s \in ScannedUnrestricted :
                        (A <= PostDate(s) /\ PostDate(s) <= B)
                            => s.guid \in SelectedGuids

\* A split posted on the last day B of the range is selected although
\* --before names an earlier day and --after a later one.
C2_Witness ==
    /\ Queried
    /\ IsSet(args.date)
    /\ IsSet(Val(args.date).start_date)
    /\ IsSet(Val(args.date).end_date)
    /\ IsSet(args.after) /\ IsSet(args.before)
    /\ \E s \in ScannedUnrestricted :
          /\ PostDate(s) = Val(Val(args.date).end_date)
          /\ PostDate(s) >= Val(args.before)
          /\ PostDate(s) < Val(args.after)
          /\ s.guid \in SelectedGuids

(***************************************************************************)
(* C3: the amount filter keeps a split iff min <= v <= max, both ends      *)
(* inclusive, where v is |value| unless --signed and value with --signed.  *)
(***************************************************************************)
FilteredValue(s) == IF args.signed THEN s.value ELSE Abs(s.value)

C3_AmountWindow ==
    (Queried /\ IsSet(args.amount)) =>
        LET lo == Val(args.amount).min_amount
            hi == Val(args.amount).max_amount
        IN  /\ \A i \in 1..Len(matching_splits) :
                  InRange(FilteredValue(matching_splits[i][1]), lo, hi)
            /\ (Unrestricted /\ NoTextFilter /\ NoGrouping
                   /\ args.after = None /\ args.before = None
                   /\ args.date = None)
                  => \A s \in ScannedUnrestricted :
                        InRange(FilteredValue(s), lo, hi)
                            => s.guid \in SelectedGuids

\* min = 5 without --signed: the split of value -7 is selected and the
\* split of value -3 is not.
C3_Witness ==
    /\ Queried
    /\ ~args.signed
    /\ IsSet(args.amount)
    /\ Val(args.amount).min_amount = Some(5)
    /\ Val(args.amount).max_amount = None
    /\ \E s \in ScannedUnrestricted : s.value = -7 /\ s.guid \in SelectedGuids
    /\ \E s \in ScannedUnrestricted :
          s.value = -3 /\ s.guid \notin SelectedGuids

(***************************************************************************)
(* Vocabulary of the grep properties.                                      *)
(***************************************************************************)
GrepRan ==
    /\ pc = "returned"
    /\ book.exists
    /\ opened
    /\ args.command = "grep"

\* The candidates of the last grep that pass all of its filters, in the
\* order the scan meets them.
PassingCandidates ==
    SelectSeq(Candidates(book, GrepAccounts(book, args)),
              LAMBDA c : GrepPasses(book, args,
                                    Compile(args.text, args.regex,
                                            args.case_sensitive),
                                    GrepAccountSet(book, args), c))

TxGuids == { book.transactions[i].guid : i \in 1..Len(book.transactions) }

OfTx(tuples, g) == { i \in 1..Len(tuples) : tuples[i][2].guid = g }

(***************************************************************************)
(* C4: with --dedupe tx grep selects, for every transaction with a passing *)
(* split, exactly the first passing split in iteration order, and nothing  *)
(* of any other transaction; with --dedupe split (and no --full-tx) every  *)
(* passing split is selected.                                              *)
(***************************************************************************)
C4_DedupePerTransaction ==
    GrepRan =>
        LET passing == PassingCandidates
        IN  /\ args.dedupe = "tx" =>
                  \A g \in TxGuids :
                      LET hits == OfTx(passing, g)
                          kept == OfTx(matching_splits, g)
                      IN  IF hits = { } THEN kept = { }
                          ELSE /\ Cardinality(kept) = 1
                               /\ \A k \in kept : \A h \in hits :
                                     (\A h2 \in hits : h <= h2)
                                         => matching_splits[k] = passing[h]
            /\ (args.dedupe = "split" /\ ~args.full_tx)
                  => matching_splits = passing

\* A transaction with three splits of which the last two pass: one row, the
\* first of the two.
C4_Witness ==
    /\ GrepRan
    /\ args.dedupe = "tx"
    /\ ~args.full_tx
    /\ \E g \in TxGuids :
          /\ Cardinality(OfTx(PassingCandidates, g)) = 2
          /\ Len(TxByGuid(book, g).splits) = 3
          /\ \E k \in OfTx(matching_splits, g) :
                /\ matching_splits[k][1].guid # TxByGuid(book, g).splits[1]
                /\ matching_splits[k] =
                       PassingCandidates[CHOOSE h \in OfTx(PassingCandidates, g) :
                           \A h2 \in OfTx(PassingCandidates, g) : h <= h2]

(***************************************************************************)
(* C5: with --full-tx grep selects at most one tuple per transaction,      *)
(* whatever --dedupe says.                                                 *)
(***************************************************************************)
C5_FullTxForcesDedupe ==
    (GrepRan /\ args.full_tx) =>
        \A i, j \in 1..Len(matching_splits) :
            matching_splits[i][2].guid = matching_splits[j][2].guid => i = j

\* --full-tx with --dedupe split over a transaction with several passing
\* splits.
C5_Witness ==
    /\ GrepRan
    /\ args.full_tx
    /\ args.dedupe = "split"
    /\ rc = Some(0)
    /\ \E g \in TxGuids :
          /\ Cardinality(OfTx(PassingCandidates, g)) >= 2
          /\ Cardinality(OfTx(matching_splits, g)) = 1

(***************************************************************************)
(* C6: with --full-tx the formatter is handed one TransactionRow per       *)
(* selected transaction, holding every split of the transaction exactly    *)
(* once, each with the notes of the transaction.                           *)
(***************************************************************************)
C6_FullTransactions ==
    (GrepRan /\ args.full_tx /\ rc = Some(0)) =>
        LET rows     == formatted.rows
            retained == { matching_splits[i][2].guid :
                            i \in 1..Len(matching_splits) }
        IN  /\ formatted.kind = "transactions"
            /\ \A g \in retained :
                  Cardinality({ k \in 1..Len(rows) : rows[k].tx_guid = g }) = 1
            /\ \A k \in 1..Len(rows) :
                  LET tx  == TxByGuid(book, rows[k].tx_guid)
                      own == { s \in AllSplits : s.tx = rows[k].tx_guid }
                      got == rows[k].splits
                  IN  /\ rows[k].tx_guid \in retained
                      /\ rows[k].notes = IF NotesSupported(book.info)
                                         THEN tx.notes ELSE None
                      /\ \A s \in own :
                            Cardinality({ j \in 1..Len(got) :
                                            got[j].split_guid = s.guid }) = 1
                      /\ \A j \in 1..Len(got) :
                            /\ got[j].split_guid \in { s.guid : s \in own }
                            /\ got[j].tx_guid = rows[k].tx_guid
                            /\ got[j].notes = rows[k].notes

\* A TransactionRow that holds a split the filters rejected, in a book that
\* stores notes.
C6_Witness ==
    /\ GrepRan
    /\ formatted.kind = "transactions"
    /\ \E k \in 1..Len(formatted.rows) :
          /\ IsSet(formatted.rows[k].notes)
          /\ \E j \in 1..Len(formatted.rows[k].splits) :
                formatted.rows[k].splits[j].split_guid \notin
                    { PassingCandidates[i][1].guid :
                        i \in 1..Len(PassingCandidates) }

(***************************************************************************)
(* C7: in accounts, grep and ledger the rows handed to the formatter are   *)
(* the slice [offset, offset + limit) of the sorted rows.                  *)
(***************************************************************************)
\* rows[offset : offset + limit], an unset offset being 0 and an unset
\* limit no limit.
SliceOf(rows, offset, limit) ==
    LET first == IF IsSet(offset) THEN Val(offset) ELSE 0
        stop  == IF IsSet(limit) THEN Min(first + Val(limit), Len(rows))
                 ELSE Len(rows)
    IN  SubSeq(rows, first + 1, stop)

C7_PaginationAfterSort ==
    (pc = "returned" /\ rc = Some(0)) =>
        /\ Len(formatted.rows) = Len(SliceOf(sorted_rows, args.offset, args.limit))
        /\ formatted.kind \in {"splits", "accounts"}
        /\ formatted.rows = SliceOf(sorted_rows, args.offset, args.limit)

(***************************************************************************)
(* C8: with --full-tx the TransactionRows handed to the formatter are in   *)
(* the order of the requested sort key and direction and are restricted by *)
(* offset and limit.                                                       *)
(***************************************************************************)
\* The keys a TransactionRow has.
TxRowKeyLess(a, b) ==
    IF args.sort = "description" THEN StrLess(a.description, b.description)
    ELSE a.date < b.date

C8_FullTxSortedAndPaged ==
    (GrepRan /\ formatted.kind = "transactions"
        /\ args.sort \in {"date", "description"}) =>
        LET rows == formatted.rows
        IN  /\ \A i, j \in 1..Len(rows) :
                  i < j => IF args.reverse THEN ~TxRowKeyLess(rows[i], rows[j])
                           ELSE ~TxRowKeyLess(rows[j], rows[i])
            /\ IsSet(args.limit) => Len(rows) <= Val(args.limit)

(***************************************************************************)
(* C9: _sort_rows is stable for every key and both directions: its result  *)
(* is a permutation of its input, in the order of the key, and rows of     *)
(* equal key keep their input order.                                       *)
(***************************************************************************)
RequestedKey(r) ==
    CASE args.sort = "amount"      -> r.amount
      [] args.sort = "account"     -> r.account
      [] args.sort = "description" -> r.description
      [] OTHER                     -> r.date

RequestedKeyLess(a, b) ==
    IF args.sort \in {"account", "description"}
    THEN StrLess(RequestedKey(a), RequestedKey(b))
    ELSE RequestedKey(a) < RequestedKey(b)

InputPosition(r) == CHOOSE i \in 1..Len(split_rows) : split_rows[i] = r

C9_SortStable ==
    (Queried /\ rc = Some(0)) =>
        /\ Len(sorted_rows) = Len(split_rows)
        /\ \A i \in 1..Len(split_rows) :
              \E j \in 1..Len(sorted_rows) : sorted_rows[j] = split_rows[i]
        /\ \A i, j \in 1..Len(sorted_rows) :
              i < j =>
                  /\ sorted_rows[i] # sorted_rows[j]
                  /\ IF args.reverse
                     THEN ~RequestedKeyLess(sorted_rows[i], sorted_rows[j])
                     ELSE ~RequestedKeyLess(sorted_rows[j], sorted_rows[i])
                  /\ RequestedKey(sorted_rows[i]) = RequestedKey(sorted_rows[j])
                        => InputPosition(sorted_rows[i])
                               < InputPosition(sorted_rows[j])

\* A descending sort by amount that moves rows and holds two rows of equal
\* amount.
C9_Witness ==
    /\ Queried
    /\ rc = Some(0)
    /\ args.sort = "amount"
    /\ args.reverse
    /\ sorted_rows # split_rows
    /\ \E i, j \in 1..Len(sorted_rows) :
          /\ i < j
          /\ sorted_rows[i].amount = sorted_rows[j].amount
          /\ InputPosition(sorted_rows[i]) < InputPosition(sorted_rows[j])

(***************************************************************************)
(* C10: two grep (or ledger) queries over the same book that differ only   *)
(* in the currency options select the same splits and end with the same    *)
(* exit code.                                                              *)
(***************************************************************************)
CurrencyOptionsOf(a) ==
    [currency |-> a.currency, base_currency |-> a.base_currency,
     also_original |-> a.also_original, fx_lookback |-> a.fx_lookback]

C10_CurrencyDoesNotSelect ==
    (/\ IsSet(prev)
     /\ args.command \in {"grep", "ledger"}
     /\ WithCurrencyOptions(args, CurrencyOptionsOf(Val(prev).args))
            = Val(prev).args) =>
        /\ SelectedGuids =
               { Val(prev).matching_splits[i][1].guid :
                   i \in 1..Len(Val(prev).matching_splits) }
        /\ rc = Val(prev).rc
        /\ pc = Val(prev).pc

\* The second query converts a selected row to an amount outside the amount
\* window both queries filter by; the first query did not convert.
C10_Witness ==
    /\ IsSet(prev)
    /\ Queried
    /\ rc = Some(0)
    /\ IsSet(args.amount)
    /\ Val(prev).args.currency # args.currency
    /\ \E i \in 1..Len(split_rows) :
          /\ IsSet(split_rows[i].fx_rate)
          /\ ~InRange(split_rows[i].amount, Val(args.amount).min_amount,
                      Val(args.amount).max_amount)

(***************************************************************************)
(* Vocabulary of the currency properties.                                  *)
(***************************************************************************)
\* The accounts the last query resolved and scanned.
CandidateAccounts ==
    IF args.command = "grep" THEN GrepAccounts(book, args)
    ELSE GetAccountByPattern(book, args.account_pattern, args.account_regex,
                             FALSE, ~args.no_subtree)

CandidateCurrencies == GetAccountCurrencies(CandidateAccounts)

\* The query produced rows: _splits_to_rows ran.
RowsBuilt == Queried /\ rc = Some(0)

\* The commodity of the account of the i-th selected tuple.
NativeCurrency(i) == matching_splits[i][3].commodity

\* The value of the i-th selected split as the rows show it.
ShownValue(i) ==
    IF args.signed THEN matching_splits[i][1].value
    ELSE Abs(matching_splits[i][1].value)

(***************************************************************************)
(* C11: in currency mode auto the target currency follows the currencies   *)
(* of the candidate accounts of the query: the base currency when they     *)
(* span more than one currency, None when they share one, whichever splits *)
(* matched.                                                                *)
(***************************************************************************)
C11_AutoTargetFromCandidates ==
    (RowsBuilt /\ args.currency = "auto") =>
        target_currency =
            IF Cardinality(CandidateCurrencies) > 1
            THEN Some(Config.base_currency) ELSE None

(***************************************************************************)
(* C12: a query in mode auto whose candidate accounts span EUR and USD     *)
(* resolves the configured base currency as target, and every row carries  *)
(* an fx_rate unless its native currency is the base currency.             *)
(***************************************************************************)
C12_MultiCurrencyAutoRates ==
    (RowsBuilt /\ args.currency = "auto"
        /\ CandidateCurrencies = {"EUR", "USD"}) =>
        /\ target_currency = Some(Config.base_currency)
        /\ \A i \in 1..Len(split_rows) :
              NativeCurrency(i) # Some(Config.base_currency)
                  => IsSet(split_rows[i].fx_rate)

(***************************************************************************)
(* C13: a row for which no exchange rate lies within the lookback window   *)
(* is produced with its original amount and currency and fx_rate None; the *)
(* query ends normally and the rows that have a rate are converted.        *)
(***************************************************************************)
NativeOrUnknown(i) ==
    IF IsSet(NativeCurrency(i)) THEN Val(NativeCurrency(i)) ELSE "???"

\* A price from -> to dated as_of or at most the lookback earlier.
RateInWindow(from, to, as_of) ==
    \E p \in book.prices :
        /\ p.from = from
        /\ p.to = to
        /\ p.date <= as_of
        /\ as_of - p.date <= LookbackOf(args)

\* Row i is sent to the converter: a target is set and differs from the
\* currency of the row.
ConversionAsked(i) ==
    IsSet(target_currency) /\ Val(target_currency) # NativeOrUnknown(i)

RateFound(i) ==
    RateInWindow(NativeOrUnknown(i), Val(target_currency),
                 matching_splits[i][2].post_date)

C13_RateUnavailableFallsBack ==
    /\ (Queried /\ matching_splits # << >>) => rc = Some(0)
    /\ RowsBuilt =>
          /\ Len(split_rows) = Len(matching_splits)
          /\ \A i \in 1..Len(split_rows) :
                ConversionAsked(i) =>
                    IF RateFound(i)
                    THEN /\ IsSet(split_rows[i].fx_rate)
                         /\ split_rows[i].currency = Val(target_currency)
                         /\ split_rows[i].amount =
                                ShownValue(i) * Val(split_rows[i].fx_rate)
                    ELSE /\ split_rows[i].fx_rate = None
                         /\ split_rows[i].currency = NativeOrUnknown(i)
                         /\ split_rows[i].amount = ShownValue(i)

\* One result with a USD row posted too long after the last price, left in
\* USD, and a USD row that was converted.
C13_Witness ==
    /\ RowsBuilt
    /\ \E i, j \in 1..Len(split_rows) :
          /\ ConversionAsked(i) /\ ~RateFound(i)
          /\ NativeCurrency(i) = Some("USD")
          /\ split_rows[i].currency = "USD"
          /\ ConversionAsked(j) /\ RateFound(j)
          /\ NativeCurrency(j) = Some("USD")
          /\ split_rows[j].currency = "EUR"

(***************************************************************************)
(* C14: a row whose native currency is the target currency, and every row  *)
(* when the target is None, shows the split value unchanged (the absolute  *)
(* value unless --signed) in its native currency, with fx_rate None.       *)
(***************************************************************************)
C14_NoConversionKeepsValue ==
    RowsBuilt =>
        \A i \in 1..Len(split_rows) :
            (target_currency = None
                \/ (IsSet(NativeCurrency(i))
                      /\ target_currency = NativeCurrency(i))) =>
                /\ split_rows[i].amount = ShownValue(i)
                /\ IsSet(NativeCurrency(i))
                      => split_rows[i].currency = Val(NativeCurrency(i))
                /\ split_rows[i].fx_rate = None

\* A target is set; a negative EUR split is shown as its absolute value in
\* EUR beside a row that was converted.
C14_Witness ==
    /\ RowsBuilt
    /\ ~args.signed
    /\ target_currency = Some("EUR")
    /\ \E i, j \in 1..Len(split_rows) :
          /\ NativeCurrency(i) = Some("EUR")
          /\ matching_splits[i][1].value < 0
          /\ split_rows[i].amount = -matching_splits[i][1].value
          /\ IsSet(split_rows[j].fx_rate)

(***************************************************************************)
(* C15: with --also-original a row carries the amount and currency from    *)
(* before the conversion iff the row was converted; the other fields of    *)
(* every row are those of the same query without the flag, and a row that  *)
(* was not converted is the same with and without the flag.                *)
(***************************************************************************)
WithoutOriginal(row) ==
    [row EXCEPT !.amount_orig = None, !.currency_orig = None]

C15_AlsoOriginalOnlyAugments ==
    /\ RowsBuilt =>
          \A i \in 1..Len(split_rows) :
              IF args.also_original /\ ConversionAsked(i) /\ RateFound(i)
              THEN /\ split_rows[i].amount_orig = Some(ShownValue(i))
                   /\ split_rows[i].currency_orig = Some(NativeOrUnknown(i))
              ELSE /\ split_rows[i].amount_orig = None
                   /\ split_rows[i].currency_orig = None
    /\ (/\ IsSet(prev)
        /\ RowsBuilt
        /\ Val(prev).args = [args EXCEPT !.also_original = ~@]) =>
          /\ Len(split_rows) = Len(Val(prev).split_rows)
          /\ \A i \in 1..Len(split_rows) :
                /\ WithoutOriginal(split_rows[i])
                       = WithoutOriginal(Val(prev).split_rows[i])
                /\ ~(ConversionAsked(i) /\ RateFound(i))
                       => split_rows[i] = Val(prev).split_rows[i]

\* The same query without and then with the flag: a converted row gained
\* its original amount and a row in the base currency gained nothing.
C15_Witness ==
    /\ IsSet(prev)
    /\ RowsBuilt
    /\ args.also_original
    /\ Val(prev).args = [args EXCEPT !.also_original = FALSE]
    /\ \E i, j \in 1..Len(split_rows) :
          /\ IsSet(split_rows[i].amount_orig)
          /\ split_rows[i].amount # Val(split_rows[i].amount_orig)
          /\ Val(prev).split_rows[i].amount_orig = None
          /\ ~ConversionAsked(j)
          /\ split_rows[j] = Val(prev).split_rows[j]

(***************************************************************************)
(* Vocabulary of the outcome properties.                                   *)
(***************************************************************************)
\* The last command was grep or ledger and has ended.
QueryEnded == pc # "ready" /\ args.command \in {"grep", "ledger"}

\* The text selector is a regex that does not compile.
BadTextPattern ==
    args.command = "grep" /\ args.regex /\ ~ReIsValid(args.text)

\* The account selector is a regex that does not compile.
BadAccountPattern ==
    /\ args.account_regex
    /\ IF args.command = "grep"
       THEN TruthyStr(args.account) /\ ~ReIsValid(Val(args.account))
       ELSE ~ReIsValid(args.account_pattern)

(***************************************************************************)
(* C16: grep and ledger end with code 0 exactly when they succeed and hand *)
(* results to the formatter, with 1 exactly when they succeed with no      *)
(* matching results, and with 2 exactly on an operational error: the book  *)
(* cannot be opened or a pattern is bad.                                   *)
(***************************************************************************)
C16_OutcomeCodes ==
    QueryEnded =>
        LET failed == ~book.exists \/ BadTextPattern \/ BadAccountPattern
        IN  /\ rc = Some(2) <=> failed
            /\ rc = Some(1) <=> (~failed /\ matching_splits = << >>)
            /\ rc = Some(0) <=> (/\ ~failed
                                 /\ matching_splits # << >>
                                 /\ formatted.kind # "none")

(***************************************************************************)
(* C17: a regex that does not compile, in the text selector or in the      *)
(* account selector, ends the command with code 2 before the book store is *)
(* accessed.                                                               *)
(***************************************************************************)
C17_BadPatternBeforeStore ==
    (QueryEnded /\ (BadTextPattern \/ BadAccountPattern)) =>
        /\ ~opened
        /\ rc = Some(2)

(***************************************************************************)
(* C20, as claimed: on the ledger with the one transaction "Office         *)
(* Supplies" (a split in Assets:Bank:Checking and one in Expenses:Office)  *)
(* the text query "supplies", a case-insensitive substring, yields exactly *)
(* one row, and the text query "SUPPLIES", a case-sensitive regex, yields  *)
(* no row and code 1.                                                      *)
(***************************************************************************)
OnScenario ==
    /\ pc = "returned"
    /\ args.command = "grep"
    /\ book = ScenarioBook

\* grep supplies
SuppliesQuery == [DefaultArgs EXCEPT !.text = Str_supplies]

\* grep SUPPLIES --regex --case-sensitive
UpperSuppliesQuery ==
    [DefaultArgs EXCEPT !.text = Str_SUPPLIES, !.regex = TRUE,
                        !.case_sensitive = TRUE]

C20_ScenarioOneRow ==
    OnScenario =>
        /\ args = SuppliesQuery
              => rc = Some(0) /\ Len(formatted.rows) = 1
        /\ args = UpperSuppliesQuery
              => rc = Some(1) /\ formatted.rows = << >>

(***************************************************************************)
(* C20, amended: the text query "supplies" yields one row per split of the *)
(* transaction, two rows, and exactly one row under --dedupe tx or when    *)
(* restricted to the account Office; the text query "SUPPLIES" as a        *)
(* case-sensitive regex yields no row and code 1.                          *)
(***************************************************************************)
C20_ScenarioRows ==
    OnScenario =>
        /\ \A dd \in {"tx", "split"}, ac \in {None, Some(Str_Office)} :
              args = [SuppliesQuery EXCEPT !.dedupe = dd, !.account = ac] =>
                  /\ rc = Some(0)
                  /\ formatted.kind = "splits"
                  /\ Len(formatted.rows) =
                         IF dd = "split" /\ ac = None THEN 2 ELSE 1
                  /\ \A i \in 1..Len(formatted.rows) :
                        formatted.rows[i].description = Str_OfficeSupplies
        /\ \A dd \in {"tx", "split"}, ac \in {None, Some(Str_Office)} :
              args = [UpperSuppliesQuery EXCEPT !.dedupe = dd, !.account = ac]
                  => rc = Some(1) /\ formatted.rows = << >>

\* grep supplies --dedupe tx: the one row of the transaction.
C20_Witness ==
    /\ OnScenario
    /\ args = [SuppliesQuery EXCEPT !.dedupe = "tx"]
    /\ rc = Some(0)
    /\ Len(formatted.rows) = 1
    /\ Len(TxSplits(book, TxByGuid(book, "s1"))) = 2

(***************************************************************************)
(* C18: in an interactive session every store handle acquired by `open`    *)
(* is closed exactly once on every exit path: a handle that is not closed  *)
(* is the book the running session holds, no handle is closed twice, and   *)
(* when run_repl has ended, by quit, end of input or an exception, every   *)
(* handle has been closed once.                                            *)
(***************************************************************************)
SessionEnded == repl_pc \in {"returned", "raised"}

C18_HandlesClosedOnce ==
    /\ \A h \in 1..Len(handles) :
          /\ handles[h].closes <= 1
          /\ handles[h].closes = 0
                => repl_pc = "prompt" /\ session.book = Some(h)
    /\ SessionEnded => \A h \in 1..Len(handles) : handles[h].closes = 1

\* A session that opened a book over another one and was then ended by an
\* exception: both handles closed once.
C18_Witness ==
    /\ repl_pc = "raised"
    /\ Len(handles) >= 2
    /\ \A h \in 1..Len(handles) : handles[h].closes = 1
    /\ \E h \in 1..Len(handles) : handles[h].path = "other"

(***************************************************************************)
(* C19: after a successful `open PATH` every query command of the session  *)
(* (accounts, grep, ledger, tx, split) works on the book the session       *)
(* holds: what it hands to the formatter and its outcome are those of the  *)
(* query over the book at PATH, and the command opens no store handle.     *)
(***************************************************************************)
\* The query the last command line asks for, with the settings of the
\* session.
AskedQuery == WithAppended(Val(ReplArgv(session, line.cmd, line.typed)).typed,
                           Val(ReplArgv(session, line.cmd, line.typed)).appended)

\* The last command line was a complete query command given to a session
\* that holds a book.
QueryOnHeldBook ==
    /\ repl_pc = "prompt"
    /\ line.cmd \in QueryCommands
    /\ IsSet(session.book)
    /\ IsSet(ReplArgv(session, line.cmd, line.typed))

C19_QueryUsesOpenBook ==
    QueryOnHeldBook =>
        LET held     == StoreAt(book, handles[Val(session.book)].path)
            expected == Main(held, AskedQuery)
        IN  /\ ~opened
            /\ formatted = expected.formatted
            /\ rc = expected.rc

(***************************************************************************)
(* C21: in the text filter of grep a requested field that a record does    *)
(* not have (no description, no memo, no notes) is not an error: the query *)
(* does not abort, and a split is selected exactly when it passes the      *)
(* other filters and the pattern is found in the haystack built with the   *)
(* absent fields taken as empty.                                           *)
(***************************************************************************)
\* The transaction with an absent description taken as the empty text.
AbsentAsEmpty(tx) ==
    IF tx.description = NoDescription
    THEN [tx EXCEPT !.description = Str_empty] ELSE tx

\* The candidate passes the account, date and amount filters and the
\* pattern is found in the fields it has.
PassesOnPresentFields(cand) ==
    LET dates     == ResolveDateFilters(args)
        supported == NotesSupported(book.info)
        fields    == IF supported THEN args.search_fields
                     ELSE args.search_fields \ {"notes"}
    IN  /\ AccountFilter(cand[1], GrepAccountSet(book, args))
        /\ DateFilter(cand[2].post_date, dates.after_date, dates.before_date)
        /\ AmountFilter(cand[1].value, args.signed, AmountRange(args))
        /\ Search(Compile(args.text, args.regex, args.case_sensitive),
                  Searchable(book, cand[1], AbsentAsEmpty(cand[2]), fields,
                             supported))

C21_AbsentFieldNotAnError ==
    (/\ QueryEnded
     /\ args.command = "grep"
     /\ book.exists
     /\ ~BadTextPattern
     /\ ~BadAccountPattern
     /\ args.sort # "description") =>
        /\ pc = "returned"
        /\ NoGrouping =>
              LET cands == Candidates(book, GrepAccounts(book, args))
              IN  SelectedGuids =
                     { cands[i][1].guid :
                         i \in { j \in 1..Len(cands) :
                                   PassesOnPresentFields(cands[j]) } }

(***************************************************************************)
(* C22: notes take part in the text search of grep only when they are      *)
(* requested and the book store reports a notes capability (a notes column *)
(* or notes in slots); when notes are requested on a book without that     *)
(* capability the search runs over the other requested fields and the      *)
(* notes the store holds are never consulted.                              *)
(***************************************************************************)
\* The text of the requested fields of a candidate, the notes among them
\* only with `withNotes`.
FieldsText(cand, withNotes) ==
    LET memo  == cand[1].memo
        notes == cand[2].notes
    IN  (IF "desc" \in args.search_fields
         THEN cand[2].description \o Space ELSE << >>)
        \o (IF "memo" \in args.search_fields
            THEN (IF IsSet(memo) THEN Val(memo) ELSE << >>) \o Space
            ELSE << >>)
        \o (IF withNotes /\ IsSet(notes) /\ Val(notes) # << >>
            THEN Val(notes) \o Space ELSE << >>)

NotesTakePart ==
    "notes" \in args.search_fields /\ NotesSupported(book.info)

C22_NotesOnlyWithCapability ==
    (GrepRan /\ NoGrouping) =>
        LET cands == Candidates(book, GrepAccounts(book, args))
            dates == ResolveDateFilters(args)
            pat   == Compile(args.text, args.regex, args.case_sensitive)
            hit(c) ==
                /\ AccountFilter(c[1], GrepAccountSet(book, args))
                /\ DateFilter(c[2].post_date, dates.after_date,
                              dates.before_date)
                /\ AmountFilter(c[1].value, args.signed, AmountRange(args))
                /\ Search(pat, FieldsText(c, NotesTakePart))
        IN  SelectedGuids =
               { cands[i][1].guid : i \in { j \in 1..Len(cands) :
                                              hit(cands[j]) } }

\* Notes alone are searched for a text the stored notes of a transaction
\* contain, on a book that reports no notes capability: nothing matches.
C22_Witness ==
    /\ GrepRan
    /\ args.search_fields = {"notes"}
    /\ args.text = Str_b
    /\ ~NotesSupported(book.info)
    /\ \E i \in 1..Len(book.transactions) :
          book.transactions[i].notes = Some(Str_b)
    /\ matching_splits = << >>
    /\ rc = Some(1)

(***************************************************************************)
(* C23: when grep is given an account restriction, the owning account of   *)
(* every selected split is in the set of accounts the restriction resolves *)
(* to; when that set is empty no split is selected and grep ends with      *)
(* code 1.                                                                 *)
(***************************************************************************)
\* The accounts --account resolves to.
ResolvedAccountSet ==
    Guids(GetAccountByPattern(book, Val(args.account), args.account_regex,
                              FALSE, ~args.no_subtree))

AccountRestricted ==
    /\ QueryEnded
    /\ args.command = "grep"
    /\ book.exists
    /\ IsSet(args.account)
    /\ ~BadTextPattern
    /\ ~BadAccountPattern

C23_AccountRestriction ==
    AccountRestricted =>
        /\ \A i \in 1..Len(matching_splits) :
              /\ matching_splits[i][1].account \in ResolvedAccountSet
              /\ matching_splits[i][3].guid \in ResolvedAccountSet
        /\ ResolvedAccountSet = { } =>
              /\ pc = "returned"
              /\ rc = Some(1)
              /\ matching_splits = << >>
              /\ formatted = NoOutput

\* A restriction that resolves to no account, on a book whose splits pass
\* every other filter.
C23_Witness ==
    /\ AccountRestricted
    /\ ResolvedAccountSet = { }
    /\ args.text = Str_empty
    /\ Len(book.splits) > 0
    /\ rc = Some(1)

(***************************************************************************)
(* C24: the candidate accounts of accounts, grep and ledger are the        *)
(* accounts whose own full name matches the pattern and, with subtree      *)
(* inclusion, every descendant of such an account even if its own name     *)
(* does not match; with --no-subtree only the accounts whose own full name *)
(* matches.  The accounts command always includes subtrees.                *)
(***************************************************************************)
RECURSIVE AncestorGuids(_)
AncestorGuids(acc) ==
    IF acc.parent = None THEN { }
    ELSE {Val(acc.parent)}
            \cup AncestorGuids(AccountByGuid(book, Val(acc.parent)))

OwnNameMatches(acc, p, re, cs) == Search(Compile(p, re, cs), acc.fullname)

\* The accounts a pattern stands for, with or without their descendants.
ExpectedAccounts(p, re, cs, subtree) ==
    { book.accounts[i].guid : i \in
        { j \in 1..Len(book.accounts) :
            \/ OwnNameMatches(book.accounts[j], p, re, cs)
            \/ /\ subtree
               /\ \E g \in AncestorGuids(book.accounts[j]) :
                     OwnNameMatches(AccountByGuid(book, g), p, re, cs) } }

SplitsOf(guids) ==
    { book.splits[i].guid :
        i \in { j \in 1..Len(book.splits) : book.splits[j].account \in guids } }

\* The last query selected by account only: every other option has its
\* default.
ByAccountOnly ==
    [args EXCEPT !.command = "grep", !.account = None,
                 !.account_pattern = Str_empty, !.account_regex = FALSE,
                 !.no_subtree = FALSE] = DefaultArgs

C24_SubtreeExpansion ==
    /\ (/\ pc = "returned" /\ book.exists /\ args.command = "accounts") =>
          { sorted_rows[i].name : i \in 1..Len(sorted_rows) } =
             { AccountByGuid(book, g).fullname :
                 g \in ExpectedAccounts(args.pattern, args.regex,
                                        args.case_sensitive, TRUE) }
    /\ (/\ pc = "returned" /\ book.exists /\ args.command = "grep"
        /\ TruthyStr(args.account) /\ ByAccountOnly) =>
          SelectedGuids =
             SplitsOf(ExpectedAccounts(Val(args.account), args.account_regex,
                                       FALSE, ~args.no_subtree))
    /\ (/\ pc = "returned" /\ book.exists /\ args.command = "ledger"
        /\ ByAccountOnly) =>
          SelectedGuids =
             SplitsOf(ExpectedAccounts(args.account_pattern,
                                       args.account_regex, FALSE,
                                       ~args.no_subtree))

\* grep restricted to the accounts ending in "A" selects a split of the
\* account A:B below A.
C24_Witness ==
    /\ pc = "returned"
    /\ args.command = "grep"
    /\ args.account = Some(Str_A_end)
    /\ args.account_regex
    /\ ~args.no_subtree
    /\ \E i \in 1..Len(matching_splits) :
          /\ matching_splits[i][3].fullname = Str_AB
          /\ ~OwnNameMatches(matching_splits[i][3], Str_A_end, TRUE, FALSE)

(***************************************************************************)
(* C25: after any sequence of cache commands, a build without --force on   *)
(* an existing cache changed nothing, so the status after two such builds  *)
(* in a row is the same; after a drop the cache does not exist and a       *)
(* status that follows reports exists = false; a drop with no cache        *)
(* reports that nothing was removed and ends with code 0.                  *)
(***************************************************************************)
PlainBuild(op) == op.action = "build" /\ ~op.force /\ op.rc = 0

C25_CacheBuildDrop ==
    /\ \A i \in 1..Len(cache_log) :
          LET op == cache_log[i]
          IN  /\ (PlainBuild(op) /\ op.before.exists) => op.after = op.before
              /\ PlainBuild(op) => op.after.exists
              /\ op.action = "drop" =>
                    /\ op.rc = 0
                    /\ ~op.after.exists
                    /\ op.removed = Some(op.before.exists)
    /\ \A i \in 1..(Len(cache_log) - 1) :
          LET op   == cache_log[i]
              next == cache_log[i + 1]
          IN  /\ (PlainBuild(op) /\ PlainBuild(next)) => next.after = op.after
              /\ (op.action = "drop" /\ next.action = "status") =>
                    /\ next.shown # None
                    /\ ~Val(next.shown).exists
    /\ cache_log # << >> => CacheStatus(cache) = cache_log[Len(cache_log)].after

\* Two builds without --force in a row, the first of which wrote the cache,
\* and then a drop.
C25_Witness ==
    /\ Len(cache_log) = 3
    /\ PlainBuild(cache_log[1]) /\ ~cache_log[1].before.exists
    /\ PlainBuild(cache_log[2])
    /\ cache_log[2].after = cache_log[1].after
    /\ cache_log[3].action = "drop"
    /\ cache_log[3].removed = Some(TRUE)
    /\ cache = None

(***************************************************************************)
(* C26: for every limit N >= 0 given to accounts, grep or ledger at most N *)
(* rows are handed to the formatter, and for every offset K >= 0 exactly   *)
(* the first min(K, total) sorted rows are skipped; limit 0 and offset 0   *)
(* included.                                                               *)
(***************************************************************************)
\* The sorted rows behind the first min(k, total).
AfterSkipping(rows, k) == SubSeq(rows, Min(k, Len(rows)) + 1, Len(rows))

C26_LimitOffsetBounds ==
    (/\ pc = "returned"
     /\ rc = Some(0)
     /\ args.command \in {"accounts", "grep", "ledger"}) =>
        /\ IsSet(args.limit) => Len(formatted.rows) <= Val(args.limit)
        /\ (IsSet(args.offset) /\ ~args.full_tx) =>
              LET rest == AfterSkipping(sorted_rows, Val(args.offset))
              IN  /\ Len(formatted.rows) <= Len(rest)
                  /\ formatted.rows = SubSeq(rest, 1, Len(formatted.rows))
                  /\ ~IsSet(args.limit) => formatted.rows = rest

(***************************************************************************)
(* C27: when a query is given a base-currency override (--base-currency,   *)
(* or the base currency set in an interactive session), the target         *)
(* currency resolved in mode base, and in mode auto when a target is       *)
(* resolved, is that override: the base currency the converter of the      *)
(* query is constructed with.                                              *)
(***************************************************************************)
BaseOverridden ==
    IsSet(args.base_currency) /\ Val(args.base_currency) # ""

C27_BaseOverrideIsTarget ==
    (/\ RowsBuilt
     /\ BaseOverridden
     /\ \/ args.currency = "base"
        \/ args.currency = "auto" /\ IsSet(target_currency)) =>
        /\ target_currency = Some(Val(args.base_currency))
        /\ target_currency =
              Some(CurrencyConverter(book, BaseCurrencyOf(args),
                                     LookbackOf(args)).base_currency)

(***************************************************************************)
(* C28: whenever the interactive session waits for a command, its book     *)
(* reference is set exactly when it holds a store handle that is open and  *)
(* not yet closed, and then the context recorded for cleanup is that of    *)
(* this handle; after an `open` that fails while a book was open the       *)
(* session has no book and the handle it held before is closed.            *)
(***************************************************************************)
OpenHandles == { h \in 1..Len(handles) : handles[h].closes = 0 }

C28_BookIffOpenHandle ==
    repl_pc = "prompt" =>
        /\ IsSet(session.book) <=> OpenHandles # { }
        /\ IsSet(session.book) =>
              /\ OpenHandles = {Val(session.book)}
              /\ session.book_ctx = session.book
              /\ IsSet(session.book_info)
        /\ ~IsSet(session.book) =>
              /\ session.book_info = None
              /\ \A h \in 1..Len(handles) : handles[h].closes = 1

\* `open` of a path without a book, given while a book was held: no book,
\* and the handle held before is closed.
C28_Witness ==
    /\ repl_pc = "prompt"
    /\ line = [cmd |-> "open", typed |-> Some("missing")]
    /\ Len(handles) >= 1
    /\ session.book = None
    /\ \A h \in 1..Len(handles) : handles[h].closes = 1

(***************************************************************************)
(* C29: while the interactive session holds no book, the commands          *)
(* accounts, grep, ledger, tx and split run no query and leave the session *)
(* (book, settings, running flag) and its handles as they are, and so do   *)
(* blank lines, comments and lines that cannot be split; quit, set and     *)
(* open are still executed.                                                *)
(***************************************************************************)
C29_NoBookCommands ==
    [][ (AtPrompt /\ session.book = None) =>
          /\ line'.cmd \in QueryCommands \cup {"", "#", "'"} =>
                /\ session' = session
                /\ handles' = handles
                /\ repl_pc' = repl_pc
                /\ UNCHANGED cliVars
          /\ line'.cmd = "quit" => ~session'.running
          /\ line'.cmd = "set" => session' = CmdSet(session, line'.typed)
          /\ line'.cmd = "open" =>
                (IsSet(session'.book)
                    <=> BookOpens(StoreAt(book,
                                          IF GivenPath(line'.typed)
                                          THEN Val(line'.typed)
                                          ELSE "configured")))
      ]_vars

\* `grep` typed into a session that never held a book: nothing has run.
C29_Witness ==
    /\ AtPrompt
    /\ session.book = None
    /\ handles = << >>
    /\ line.cmd = "grep"
    /\ IsSet(line.typed)
    /\ pc = "ready"
    /\ formatted = NoOutput

(***************************************************************************)
(* C30: with --full-tx every split row of every TransactionRow handed to   *)
(* the formatter carries the currency of its own account, the amount of    *)
(* its split unconverted (absolute unless --signed) and fx_rate None,      *)
(* whatever currency mode, base currency and lookback the query requests.  *)
(***************************************************************************)
FullTxRan == GrepRan /\ rc = Some(0) /\ args.full_tx

\* The split of the book a row stands for.
SplitOfRow(r) ==
    LET i == CHOOSE i \in 1..Len(book.splits) :
                 book.splits[i].guid = r.split_guid
    IN  book.splits[i]

C30_FullTxRowsUnconverted ==
    FullTxRan =>
        /\ formatted.kind = "transactions"
        /\ \A t \in 1..Len(formatted.rows) :
           \A k \in 1..Len(formatted.rows[t].splits) :
              LET r   == formatted.rows[t].splits[k]
                  s   == SplitOfRow(r)
                  acc == AccountByGuid(book, s.account)
              IN  /\ r.account = acc.fullname
                  /\ r.currency = IF IsSet(acc.commodity)
                                  THEN Val(acc.commodity) ELSE ""
                  /\ r.amount = IF args.signed THEN s.value ELSE Abs(s.value)
                  /\ r.fx_rate = None

\* --full-tx in mode base over a split in USD for which a rate to the base
\* currency lies in the window: the row stays in USD.
C30_Witness ==
    /\ FullTxRan
    /\ args.currency = "base"
    /\ \E t \in 1..Len(formatted.rows) :
       \E k \in 1..Len(formatted.rows[t].splits) :
          LET r == formatted.rows[t].splits[k]
          IN  /\ r.currency = "USD"
              /\ r.fx_rate = None
              /\ Convert(CurrencyConverter(book, BaseCurrencyOf(args),
                                           LookbackOf(args)),
                         r.amount, "USD", Config.base_currency,
                         r.date).converted

====
